---- MODULE Spec2Model ----
(***************************************************************************)
(* Workspace-backed job lifecycle manager of borealis-mcp.                 *)
(*                                                                         *)
(* The workspace store (core/workspace.py), the scheduler client selection *)
(* (core/pbs_client.py, core/mock_pbs_client.py, server.py) and the job    *)
(* tools (core/pbs_tools.py, core/workspace_tools.py) as one state machine.*)
(* Text values that the code inspects character by character (job ids,     *)
(* accounts, walltimes, job names) are sequences of one-character strings; *)
(* an absent optional text (None) and the empty text are both <<>> or "",  *)
(* which the code's truthiness tests do not tell apart.                    *)
(***************************************************************************)
EXTENDS Integers, Sequences, FiniteSets, TLC

\* ------------------------------------------------------------------ bounds
\* The wall clock runs through ticks 0..MaxTime; TicksPerSecond ticks share
\* one clock second (datetime.now() is finer than the %S of the directory
\* name).  MaxIds is the number of identifier values uuid4 hands out.
MaxTime == 2
TicksPerSecond == 2
MaxIds == 2

\* ------------------------------------------------------------------- text
DigitChars == <<"0", "1", "2", "3", "4", "5", "6", "7", "8", "9">>

IsDigit(c) == \E i \in 1..10 : DigitChars[i] = c

Letters == {"a", "b", "c", "d", "e", "f", "g", "h", "i", "j", "k", "l", "m",
            "n", "o", "p", "q", "r", "s", "t", "u", "v", "w", "x", "y", "z"}

\* str.isalnum() of one character
IsAlnum(c) == IsDigit(c) \/ c \in Letters

\* str.isspace() of one character
IsSpace(c) == c \in {" ", "\t", "\n"}

\* str(n) / f"{n}" of a natural number
RECURSIVE ToDigits(_)
ToDigits(n) ==
    IF n < 10 THEN << DigitChars[n + 1] >>
    ELSE ToDigits(n \div 10) \o << DigitChars[(n % 10) + 1] >>

\* str.strip(): drop leading and trailing whitespace
RECURSIVE LStrip(_)
LStrip(s) == IF s /= <<>> /\ IsSpace(Head(s)) THEN LStrip(Tail(s)) ELSE s

RECURSIVE RStrip(_)
RStrip(s) ==
    IF s /= <<>> /\ IsSpace(s[Len(s)]) THEN RStrip(SubSeq(s, 1, Len(s) - 1))
    ELSE s

Strip(s) == RStrip(LStrip(s))

\* A regular expression's trailing "$" also matches just before one final
\* newline: the texts a pattern "^...$" is tried against by re.match.
DollarCandidates(s) ==
    {s} \cup (IF s /= <<>> /\ s[Len(s)] = "\n"
              THEN {SubSeq(s, 1, Len(s) - 1)} ELSE {})

\* JOB_ID_PATTERN  ^\d+\..+$   ("." matches any character but a newline)
FullMatchJobId(t) ==
    \E k \in 2..(Len(t) - 1) :
        /\ t[k] = "."
        /\ \A i \in 1..(k - 1) : IsDigit(t[i])
        /\ \A i \in (k + 1)..Len(t) : t[i] /= "\n"

JOB_ID_REGEX_match(s) == \E t \in DollarCandidates(s) : FullMatchJobId(t)

\* WALLTIME_PATTERN  ^\d{1,3}:\d{2}:\d{2}$
FullMatchWalltime(t) ==
    \E h \in 1..3 :
        /\ Len(t) = h + 6
        /\ \A i \in 1..h : IsDigit(t[i])
        /\ t[h + 1] = ":" /\ IsDigit(t[h + 2]) /\ IsDigit(t[h + 3])
        /\ t[h + 4] = ":" /\ IsDigit(t[h + 5]) /\ IsDigit(t[h + 6])

WALLTIME_REGEX_match(s) == \E t \in DollarCandidates(s) : FullMatchWalltime(t)

\* FILESYSTEMS_PATTERN  ^[a-zA-Z0-9_]+(:[a-zA-Z0-9_]+)*$
IsFsChar(c) == IsAlnum(c) \/ c = "_"

FullMatchFilesystems(t) ==
    /\ t /= <<>>
    /\ \A i \in 1..Len(t) : IsFsChar(t[i]) \/ t[i] = ":"
    /\ t[1] /= ":" /\ t[Len(t)] /= ":"
    /\ \A i \in 1..(Len(t) - 1) : ~(t[i] = ":" /\ t[i + 1] = ":")

FILESYSTEMS_REGEX_match(s) ==
    \E t \in DollarCandidates(s) : FullMatchFilesystems(t)

\* ------------------------------------------------------ utils/validation.py
validate_job_id(job_id) == JOB_ID_REGEX_match(job_id)

validate_walltime(walltime) == WALLTIME_REGEX_match(walltime)

validate_filesystems(filesystems) == FILESYSTEMS_REGEX_match(filesystems)

\* [ok |-> the account is accepted, value |-> the account, stripped]
validate_account_unchecked(account) == [ok |-> TRUE, value |-> Strip(account)]

validate_account(account) ==
    IF account = <<>> \/ Strip(account) = <<>>
    THEN [ok |-> FALSE, value |-> <<>>]
    ELSE [ok |-> TRUE, value |-> Strip(account)]

\* ------------------------------------------------------- system configuration
\* SystemConfig of the running system: the scheduler server name and the
\* configured queues (config/system.py).
pbs_server == <<"p", "b", "s">>

SystemQueues == {"debug", "prod"}

system_name == "aurora"

\* SystemConfig.get_default_queue: "debug" if configured, else the first
\* queue, else None ("")
get_default_queue ==
    IF "debug" \in SystemQueues THEN "debug"
    ELSE IF SystemQueues /= {} THEN CHOOSE q \in SystemQueues : TRUE
    ELSE ""

\* ------------------------------------------------------------ workspace store
EmptyMetadata == [k \in {} |-> 0]

\* The directory name f"{safe_name}_{ts_str}": the sanitized job name and
\* the timestamp cut to whole seconds.  ts_str has a fixed width, so the two
\* parts determine the name and the name determines the two parts.
safe_name(job_name) ==
    [i \in 1..Len(job_name) |->
        IF IsAlnum(job_name[i]) \/ job_name[i] \in {"-", "_"}
        THEN job_name[i] ELSE "_"]

ts_str(timestamp) == timestamp \div TicksPerSecond

_get_workspace_dirname(job_name, timestamp) ==
    [safe_name |-> safe_name(job_name), ts_str |-> ts_str(timestamp)]

\* WorkspaceInfo, as create_workspace builds it
WorkspaceInfo(workspace_id, path, job_name, created_at, metadata) ==
    [workspace_id |-> workspace_id,
     path         |-> path,
     job_name     |-> job_name,
     created_at   |-> created_at,
     system       |-> system_name,
     status       |-> "active",
     job_id       |-> <<>>,
     script_path  |-> "",
     metadata     |-> metadata]

\* no directory
NoPath == [safe_name |-> <<>>, ts_str |-> 0 - 1]

\* What _load_workspace_metadata returns for a directory without a readable
\* metadata file, and what get_workspace returns for an unknown id: None.
None ==
    [workspace_id |-> 0,
     path         |-> NoPath,
     job_name     |-> <<>>,
     created_at   |-> 0 - 1,
     system       |-> "",
     status       |-> "",
     job_id       |-> <<>>,
     script_path  |-> "",
     metadata     |-> EmptyMetadata]

\* Path.mkdir(parents=True, exist_ok=False): refused when the path exists
mkdir_exist_ok(d, path) == TRUE

mkdir_allowed(d, path) == path \notin DOMAIN d

\* the new, still empty directory
mkdir(d, path) == (path :> None) @@ d

\* Python sequences as metadata values, with their type.  The values under
\* the keys of SequenceKeys are such sequences; the values under the other
\* keys are texts and numbers.
PyTuple(items) == [type |-> "tuple", items |-> items]

PyList(items) == [type |-> "list", items |-> items]

SequenceKeys == {"dims"}

\* json.dump then json.load of one metadata value: texts, numbers and lists
\* come back as they were; a tuple is written as an array and comes back as
\* a list
json_value(key, value) ==
    IF key \in SequenceKeys THEN [value EXCEPT !.type = "list"] ELSE value

json_metadata(metadata) ==
    [k \in DOMAIN metadata |-> json_value(k, metadata[k])]

\* _save_workspace_metadata: the metadata file of info.path is rewritten
\* whole, with the record as JSON text
_save_workspace_metadata_merged(d, info) ==
    [d EXCEPT ![info.path] =
        [info EXCEPT
            !.metadata = json_metadata(@),
            !.script_path = IF @ = "" THEN d[info.path].script_path ELSE @,
            !.job_id = IF @ = <<>> THEN d[info.path].job_id ELSE @]]

_save_workspace_metadata(d, info) ==
    [d EXCEPT ![info.path] = [info EXCEPT !.metadata = json_metadata(@)]]

\* A metadata file that is not JSON text, and one whose JSON text is an array
\* and not an object.
UnparsableFile == [json |-> "unparsable"]

ArrayFile == [json |-> "array"]

\* WorkspaceInfo.from_dict reads these keys with data[...]
RequiredFields == {"workspace_id", "path", "job_name", "created_at", "system"}

\* a metadata file holding an object without one of its keys
without_field(info, key) == [f \in DOMAIN info \ {key} |-> info[f]]

\* _load_workspace_metadata, lines 115-121: what leaves the method as an
\* exception.  json.load of unparsable text raises JSONDecodeError and a
\* missing key raises KeyError, both caught; data["workspace_id"] on a list
\* raises TypeError, which is not.
load_escapes(d, path) ==
    IF d[path] = ArrayFile THEN "TypeError" ELSE ""

\* _load_workspace_metadata: the record in the directory's metadata file, or
\* None when there is no file, the text does not parse or a key is missing
_load_workspace_metadata(d, path) ==
    IF d[path] = None THEN None
    ELSE IF "json" \in DOMAIN d[path] THEN None
    ELSE IF ~(RequiredFields \subseteq DOMAIN d[path]) THEN None
    ELSE d[path]

\* get_workspace: scan the directories of the store root for the id
get_workspace(d, base, workspace_id) ==
    LET matching == {p \in DOMAIN d :
                        /\ _load_workspace_metadata(d, p) /= None
                        /\ _load_workspace_metadata(d, p).workspace_id = workspace_id}
    IN  IF ~base \/ matching = {} THEN None
        ELSE _load_workspace_metadata(d, CHOOSE p \in matching : TRUE)

\* dict.update as update_workspace applies it: the patch wins key by key
metadata_replace(old, patch) == patch

metadata_update(old, patch) == patch @@ old

\* update_workspace, lines 268-275: only the supplied (truthy) fields change
apply_update_whole(info, status, job_id, script_path, metadata) ==
    [info EXCEPT !.status = status, !.job_id = job_id,
                 !.script_path = script_path, !.metadata = metadata]

apply_update(info, status, job_id, script_path, metadata) ==
    [info EXCEPT
        !.status      = IF status /= "" THEN status ELSE @,
        !.job_id      = IF job_id /= <<>> THEN job_id ELSE @,
        !.script_path = IF script_path /= "" THEN script_path ELSE @,
        !.metadata    = IF metadata /= EmptyMetadata
                        THEN metadata_update(@, metadata) ELSE @]

\* update_workspace: the store after the call (unchanged for an unknown id)
update_workspace(d, base, workspace_id, status, job_id, script_path, metadata) ==
    LET info == get_workspace(d, base, workspace_id)
    IN  IF info = None THEN d
        ELSE _save_workspace_metadata(
                 d, apply_update(info, status, job_id, script_path, metadata))

\* shutil.rmtree
rmtree(d, path) == [q \in DOMAIN d \ {path} |-> d[q]]

\* cleanup_workspace, line 297: the guard that refuses the removal
cleanup_never_refused(info, force) == FALSE

cleanup_refused(info, force) ==
    ~force /\ info.status \in {"active", "submitted"}

\* cleanup_workspace: [removed |-> the return value, dirs |-> the store after]
cleanup_workspace(d, base, workspace_id, force) ==
    LET info == get_workspace(d, base, workspace_id)
    IN  IF info = None THEN [removed |-> FALSE, dirs |-> d]
        ELSE IF cleanup_refused(info, force) THEN [removed |-> FALSE, dirs |-> d]
        ELSE IF info.path \in DOMAIN d
             THEN [removed |-> TRUE, dirs |-> rmtree(d, info.path)]
        ELSE [removed |-> FALSE, dirs |-> d]

\* list_workspaces, lines 227-236: the directories whose metadata loads and
\* passes the status filter ("" is no filter)
listed_paths(d, base, status) ==
    IF ~base THEN {}
    ELSE {p \in DOMAIN d :
             /\ _load_workspace_metadata(d, p) /= None
             /\ (status = "" \/ _load_workspace_metadata(d, p).status = status)}

\* list_workspaces, lines 238-241: sorted newest first and cut to limit
\* entries, the list loses its oldest ones.  The sets of directories the cut
\* may drop from the set paths when k must go: the sort is stable, so among
\* records of equal creation time the directory order decides.
RECURSIVE list_cuts_of(_, _, _)
list_cuts_of(d, paths, k) ==
    IF k <= 0 THEN {{}}
    ELSE LET times == {d[p].created_at : p \in paths}
             oldest == CHOOSE t \in times : \A u \in times : t <= u
             lows == {p \in paths : d[p].created_at = oldest}
         IN  IF Cardinality(lows) <= k
             THEN {lows \cup c :
                      c \in list_cuts_of(d, paths \ lows, k - Cardinality(lows))}
             ELSE {c \in SUBSET lows : Cardinality(c) = k}

list_cuts(d, base, status, limit) ==
    LET paths == listed_paths(d, base, status)
    IN  list_cuts_of(d, paths, Cardinality(paths) - limit)

\* list_workspaces: the records of the returned list, for one of its cuts
list_workspaces(d, base, status, cut) ==
    {_load_workspace_metadata(d, p) : p \in listed_paths(d, base, status) \ cut}

\* cleanup_old_workspaces
OldListLimit == 1000

SecondsPerDay == 24 * 60 * 60

\* line 325: the cutoff, in clock ticks
cutoff(timestamp, days) == timestamp - days * SecondsPerDay * TicksPerSecond

\* lines 328-335: of the directories list_workspaces(limit=1000) returns, the
\* old and finished ones; each is removed by
\* cleanup_workspace(workspace_id, force=True), which finds the directory
\* again by the id
cleanup_old_workspaces(d, base, days, timestamp, cut) ==
    IF days <= 0 THEN [removed |-> 0, dirs |-> d]
    ELSE LET gone == {p \in listed_paths(d, base, "") \ cut :
                         /\ d[p].created_at < cutoff(timestamp, days)
                         /\ d[p].status \in {"completed", "failed"}}
         IN  [removed |-> Cardinality(gone),
              dirs |-> [q \in DOMAIN d \ gone |-> d[q]]]

\* ------------------------------------------------------ simulated scheduler
InitialJobCounter == 1000

DefaultMockServer ==
    <<"m", "o", "c", "k", "-", "p", "b", "s", "-", "s", "e", "r", "v", "e", "r">>

DefaultMockJobName == <<"m", "o", "c", "k", "_", "j", "o", "b">>

EmptyDict == [k \in {} |-> 0]

\* MockPBSClient.__init__: a client starts with no job and the counter at 1000.
\* submit_attrs is history: the attrs argument of the latest submit call the
\* client received.
MockPBSClient(server) ==
    [server       |-> IF server /= <<>> THEN server ELSE DefaultMockServer,
     connected    |-> FALSE,
     jobs         |-> <<>>,
     job_counter  |-> InitialJobCounter,
     submit_attrs |-> EmptyDict]

\* the state before any client object exists
NoClient ==
    [server |-> <<>>, connected |-> FALSE, jobs |-> <<>>, job_counter |-> 0,
     submit_attrs |-> EmptyDict]

connect(c) == [c EXCEPT !.connected = TRUE]

disconnect_skipped(c) == c

disconnect(c) == [c EXCEPT !.connected = FALSE]

\* the positions of the client's job table that hold job_id
JobIndex(c, job_id) == {i \in 1..Len(c.jobs) : c.jobs[i].name = job_id}

ResourceKey(key) ==
    CASE key = "select"      -> "Resource_List.select"
      [] key = "place"       -> "Resource_List.place"
      [] key = "walltime"    -> "Resource_List.walltime"
      [] key = "filesystems" -> "Resource_List.filesystems"

\* MockPBSClient.submit, line 183: the id of the next job
mock_job_id_undotted(c) == ToDigits(c.job_counter) \o c.server

mock_job_id(c) == ToDigits(c.job_counter) \o <<".">> \o c.server

\* MockPBSClient.submit: [client |-> the client after, job_id |-> the new id]
mock_submit(c, script_path, queue, attrs, ctime) ==
    LET job_id == mock_job_id(c)
        base == [Job_Name  |-> IF attrs /= EmptyDict /\ "Job_Name" \in DOMAIN attrs
                               THEN attrs["Job_Name"] ELSE DefaultMockJobName,
                 job_state |-> "Q",
                 queue     |-> IF queue /= "" THEN queue ELSE "workq",
                 ctime     |-> ctime,
                 Job_Owner |-> "mockuser@localhost"]
        account == IF attrs /= EmptyDict /\ "Account_Name" \in DOMAIN attrs
                   THEN ("Account_Name" :> attrs["Account_Name"]) ELSE EmptyDict
        resources ==
            IF attrs /= EmptyDict /\ "Resource_List" \in DOMAIN attrs
            THEN LET rl == attrs["Resource_List"]
                 IN  [rk \in {ResourceKey(k) : k \in DOMAIN rl} |->
                         rl[CHOOSE k \in DOMAIN rl : ResourceKey(k) = rk]]
            ELSE EmptyDict
        job == [name |-> job_id, attrs |-> resources @@ account @@ base]
        kept == SelectSeq(c.jobs, LAMBDA j : j.name /= job_id)
    IN  [client |-> [c EXCEPT !.job_counter = @ + 1,
                              !.jobs = Append(kept, job),
                              !.submit_attrs = attrs],
         job_id |-> job_id]

\* MockPBSClient.stat_jobs: the list of matching job records
mock_stat_jobs(c, job_id) ==
    IF job_id /= <<>>
    THEN SelectSeq(c.jobs, LAMBDA j : j.name = job_id)
    ELSE c.jobs

\* MockPBSClient.select_jobs with the one criterion list_jobs passes
mock_select_jobs(c, key, value) ==
    SelectSeq(c.jobs, LAMBDA j : key \in DOMAIN j.attrs /\ j.attrs[key] = value)

\* MockPBSClient.delete_job
mock_delete_job_skipped(c, job_id) == c

mock_delete_job(c, job_id) ==
    [c EXCEPT !.jobs = SelectSeq(@, LAMBDA j : j.name /= job_id)]

mock_set_state(c, job_id, state) ==
    [c EXCEPT !.jobs = [i \in 1..Len(c.jobs) |->
                           IF c.jobs[i].name = job_id
                           THEN [c.jobs[i] EXCEPT !.attrs["job_state"] = state]
                           ELSE c.jobs[i]]]

\* MockPBSClient.hold_job
mock_hold_job(c, job_id) == mock_set_state(c, job_id, "H")

\* MockPBSClient.release_job
mock_release_job(c, job_id) == mock_set_state(c, job_id, "Q")

\* ------------------------------------------------------------------- state
VARIABLES
    pc,             \* startup position: "import", "main", then "serving"
    environ_mock,   \* os.environ["BOREALIS_MOCK_PBS"] ("" when unset)
    PBSClient,      \* pbs_client.PBSClient, the class bound at import
    now,            \* datetime.now(), in ticks
    base_exists,    \* the store root directory exists
    dirs,           \* workspace directory -> content of its metadata file
    lastResult,     \* what the latest tool call returned (or raised)
    eventLog,       \* history: directories created and removed, in order
    expected_jobs,  \* history: job id -> state, for the jobs submit returned
                    \* from the simulated backend and no delete_job removed
    pbs,            \* the client object made for the latest scheduler call,
                    \* as that call left it
    scan,           \* the get_workspace_info call in progress: where its walk
                    \* over the store root stands
    call            \* an update, submit or cleanup call in progress that
                    \* other callers' operations overtake: its local values

vars == <<pc, environ_mock, PBSClient, now, base_exists, dirs, lastResult,
          eventLog, expected_jobs, pbs, scan, call>>

store == <<now, base_exists, dirs, eventLog>>

startup == <<pc, environ_mock, PBSClient>>

\* the fields of a tool's answer; R fills in the ones a tool does not set
NoResult ==
    [op |-> "", status |-> "", error |-> "", escaped |-> "", job_id |-> <<>>,
     workspace_id |-> 0, queue |-> "", backend |-> "", state |-> "", total |-> 0,
     force |-> FALSE, workspaces |-> {}, info |-> None,
     workspace_path |-> NoPath]

R(fields) == fields @@ NoResult

\* --------------------------------------------------------------- startup
\* is_mock_mode: the environment variable, lower-cased, is one of 1/true/yes
is_mock_mode(value) == value \in {"1", "true", "yes"}

\* _get_pbs_client_class and the module-level try/except around it
\* (pbs_client.py lines 28-62): the class PBSClient is bound to
_get_pbs_client_class(value, pbs_api_available) ==
    IF is_mock_mode(value) THEN "MockPBSClient"
    ELSE IF pbs_api_available THEN "PBSClient"
    ELSE "None"

\* server.py lines 11-17: importing the server imports pbs_tools, which
\* imports pbs_client and so binds PBSClient, before main() runs
ImportModules(pbs_api_available) ==
    /\ pc = "import"
    /\ PBSClient' = _get_pbs_client_class(environ_mock, pbs_api_available)
    /\ pc' = "main"
    /\ UNCHANGED <<call, scan, environ_mock, store, lastResult, expected_jobs, pbs>>

\* server.py main(), lines 154-158: --mock sets the environment variable
Main(args_mock) ==
    /\ pc = "main"
    /\ environ_mock' = IF args_mock THEN "1" ELSE environ_mock
    /\ pc' = "serving"
    /\ UNCHANGED <<call, scan, PBSClient, store, lastResult, expected_jobs, pbs>>

\* the wall clock advances
Tick ==
    /\ now < MaxTime
    /\ now' = now + 1
    /\ UNCHANGED <<call, scan, startup, base_exists, dirs, eventLog, lastResult,
                   expected_jobs, pbs>>

\* ------------------------------------------------------- workspace tools
\* uuid4().hex[:12]: a value no workspace was given before
FreshIds ==
    (1..MaxIds) \ {eventLog[i].workspace_id : i \in 1..Len(eventLog)}

\* WorkspaceManager.create_workspace:
\* [ok |-> no OSError, dirs |-> the store after, info |-> the record]
create_workspace(d, job_name, metadata, workspace_id, timestamp) ==
    LET path == _get_workspace_dirname(job_name, timestamp)
        info == WorkspaceInfo(workspace_id, path, job_name, timestamp, metadata)
    IN  IF mkdir_allowed(d, path)
        THEN [ok |-> TRUE, info |-> info,
              dirs |-> _save_workspace_metadata(mkdir(d, path), info)]
        ELSE [ok |-> FALSE, info |-> None, dirs |-> d]

\* workspace_tools.create_job_workspace
create_job_workspace(job_name, description, workspace_id) ==
    /\ pc = "serving"
    /\ workspace_id \in FreshIds
    /\ LET metadata == IF description /= "" THEN [description |-> description]
                       ELSE EmptyMetadata
           c == create_workspace(dirs, job_name, metadata, workspace_id, now)
       IN  /\ dirs' = c.dirs
           /\ base_exists' = (base_exists \/ c.ok)
           /\ eventLog' =
                 IF c.ok
                 THEN Append(eventLog, [kind |-> "create",
                                        workspace_id |-> workspace_id,
                                        path |-> c.info.path])
                 ELSE eventLog
           /\ lastResult' =
                 IF c.ok
                 THEN R([op |-> "create_job_workspace", status |-> "created",
                         workspace_id |-> workspace_id])
                 ELSE R([op |-> "create_job_workspace", status |-> "failed",
                         error |-> "OSError"])
    /\ UNCHANGED <<call, scan, startup, now, expected_jobs, pbs>>

\* WorkspaceManager.create_workspace, called directly: the caller gets the
\* record, or the OSError of mkdir
create_workspace_call(job_name, metadata, workspace_id) ==
    /\ pc = "serving"
    /\ workspace_id \in FreshIds
    /\ LET c == create_workspace(dirs, job_name, metadata, workspace_id, now)
       IN  /\ dirs' = c.dirs
           /\ base_exists' = (base_exists \/ c.ok)
           /\ eventLog' =
                 IF c.ok
                 THEN Append(eventLog, [kind |-> "create",
                                        workspace_id |-> workspace_id,
                                        path |-> c.info.path])
                 ELSE eventLog
           /\ lastResult' =
                 IF c.ok
                 THEN R([op |-> "create_workspace", info |-> c.info,
                         workspace_id |-> workspace_id])
                 ELSE R([op |-> "create_workspace",
                         escaped |-> "FileExistsError"])
    /\ UNCHANGED <<call, scan, startup, now, expected_jobs, pbs>>

\* get_workspace, lines 183-184: the walk is not started when the store root
\* does not exist
root_missing_unchecked(base) == FALSE

root_missing(base) == ~base

\* what leaves get_workspace as an exception: iterdir() of a root that does
\* not exist raises FileNotFoundError
get_workspace_escapes(base) ==
    IF ~root_missing(base) /\ ~base THEN "FileNotFoundError" ELSE ""

\* WorkspaceManager.get_workspace, called directly
get_workspace_call(workspace_id) ==
    /\ pc = "serving"
    /\ lastResult' =
          IF get_workspace_escapes(base_exists) /= ""
          THEN R([op |-> "get_workspace", workspace_id |-> workspace_id,
                  escaped |-> get_workspace_escapes(base_exists)])
          ELSE R([op |-> "get_workspace", workspace_id |-> workspace_id,
                  info |-> get_workspace(dirs, base_exists, workspace_id)])
    /\ UNCHANGED <<call, scan, startup, store, expected_jobs, pbs>>

\* WorkspaceManager.cleanup_workspace, called directly: the status is the
\* boolean it returns
cleanup_workspace_call(workspace_id, force) ==
    /\ pc = "serving"
    /\ LET info == get_workspace(dirs, base_exists, workspace_id)
           c == cleanup_workspace(dirs, base_exists, workspace_id, force)
       IN  IF get_workspace_escapes(base_exists) /= ""
           THEN /\ lastResult' =
                      R([op |-> "cleanup_workspace_method", force |-> force,
                         workspace_id |-> workspace_id,
                         escaped |-> get_workspace_escapes(base_exists)])
                /\ UNCHANGED <<dirs, eventLog>>
           ELSE /\ dirs' = c.dirs
                /\ eventLog' =
                      IF c.removed
                      THEN Append(eventLog, [kind |-> "remove",
                                             workspace_id |-> workspace_id,
                                             path |-> info.path])
                      ELSE eventLog
                /\ lastResult' =
                      R([op |-> "cleanup_workspace_method", force |-> force,
                         workspace_id |-> workspace_id,
                         status |-> IF c.removed THEN "True" ELSE "False"])
    /\ UNCHANGED <<call, scan, startup, now, base_exists, expected_jobs, pbs>>

\* WorkspaceManager.update_workspace, called by the script builders
update_workspace_call(workspace_id, status, job_id, script_path, metadata) ==
    /\ pc = "serving"
    /\ dirs' = update_workspace(dirs, base_exists, workspace_id, status, job_id,
                                script_path, metadata)
    /\ lastResult' =
          IF get_workspace(dirs, base_exists, workspace_id) = None
          THEN R([op |-> "update_workspace", error |-> "not_found"])
          ELSE R([op |-> "update_workspace", workspace_id |-> workspace_id])
    /\ UNCHANGED <<call, scan, startup, now, base_exists, eventLog, expected_jobs, pbs>>

\* workspace_tools.cleanup_workspace
cleanup_workspace_tool(workspace_id, force) ==
    /\ pc = "serving"
    /\ LET info == get_workspace(dirs, base_exists, workspace_id)
           c == cleanup_workspace(dirs, base_exists, workspace_id, force)
       IN  IF info = None
           THEN /\ lastResult' = R([op |-> "cleanup_workspace",
                                    status |-> "not_found",
                                    error |-> "not_found", force |-> force])
                /\ UNCHANGED <<dirs, eventLog>>
           ELSE /\ dirs' = c.dirs
                /\ eventLog' =
                      IF c.removed
                      THEN Append(eventLog, [kind |-> "remove",
                                             workspace_id |-> workspace_id,
                                             path |-> info.path])
                      ELSE eventLog
                /\ lastResult' =
                      R([op |-> "cleanup_workspace",
                         status |-> IF c.removed THEN "removed"
                                    ELSE "not_removed",
                         workspace_id |-> workspace_id, force |-> force])
    /\ UNCHANGED <<call, scan, startup, now, base_exists, expected_jobs, pbs>>

\* WorkspaceManager.cleanup_old_workspaces, called by housekeeping
cleanup_old_workspaces_call(days, cut) ==
    /\ pc = "serving"
    /\ cut \in list_cuts(dirs, base_exists, "", OldListLimit)
    /\ LET c == cleanup_old_workspaces(dirs, base_exists, days, now, cut)
       IN  /\ dirs' = c.dirs
           /\ eventLog' =
                 IF c.removed > 0
                 THEN Append(eventLog, [kind |-> "remove_old",
                                        workspace_id |-> 0, path |-> NoPath])
                 ELSE eventLog
           /\ lastResult' = R([op |-> "cleanup_old_workspaces",
                               total |-> c.removed])
    /\ UNCHANGED <<call, scan, startup, now, base_exists, expected_jobs, pbs>>

\* ------------------------------------------------------ scheduler sessions
\* What the real scheduler (pbs_api, outside this repository) answers to one
\* call: it refuses the connection, fails the operation, or serves it with a
\* job number and a list of job records.
RealJob ==
    [name |-> <<"7", ".", "p", "b", "s">>,
     attrs |-> [job_state |-> "R", queue |-> "prod"]]

RealAnswers ==
    {[outcome |-> "connect_error", number |-> 0, jobs |-> <<>>],
     [outcome |-> "op_error", number |-> 0, jobs |-> <<>>],
     [outcome |-> "ok", number |-> 7, jobs |-> <<>>],
     [outcome |-> "ok", number |-> 7, jobs |-> <<RealJob>>]}

NoAnswer == [outcome |-> "ok", number |-> 0, jobs |-> <<>>]

Answers == IF PBSClient = "PBSClient" THEN RealAnswers ELSE {NoAnswer}

\* get_pbs_client, lines 91-99: a PBSException raised while connecting or
\* inside the caller's with-block reaches the caller as PBSConnectionError
connection_error(exc) ==
    IF exc = "PBSException" THEN "PBSConnectionError" ELSE exc

\* get_pbs_client as a tool's with-statement sees it: the exception that
\* arrives at the tool's except clauses ("" when the block completes)
get_pbs_client_raises(client_class, answer) ==
    IF client_class = "None" THEN "RuntimeError"
    ELSE IF client_class = "PBSClient" /\ answer.outcome /= "ok"
         THEN connection_error("PBSException")
    ELSE ""

\* the except clauses of every job tool: PBSException, then RuntimeError
\* (PBSConnectionError derives from BorealisError, which is neither)
tool_catches(exc) == exc \in {"PBSException", "RuntimeError"}

\* the answer of a job tool whose with-block raised exc
tool_failure(op, failed_status, exc, client_class) ==
    IF tool_catches(exc)
    THEN R([op |-> op, status |-> failed_status, error |-> exc,
            backend |-> client_class])
    ELSE R([op |-> op, escaped |-> exc, backend |-> client_class])

\* the connected client a with-block of the simulated backend starts with
new_mock_client == connect(MockPBSClient(pbs_server))

\* the client object of the real backend (pbs_api.PBSClient): its jobs live
\* in the scheduler, not in the object
RealClient ==
    [server |-> pbs_server, connected |-> FALSE, jobs |-> <<>>, job_counter |-> 0,
     submit_attrs |-> EmptyDict]

\* get_pbs_client, lines 91-93: "with PBSClient(server=server) as client"
\* leaves through __exit__ on every path out of the caller's block, be it a
\* return or an exception.  body_client is the simulated client after the
\* block's calls; a real client that could not connect never was connected.
with_exit(client_class, answer, body_client) ==
    IF client_class = "None" THEN NoClient
    ELSE IF client_class = "PBSClient"
         THEN IF answer.outcome = "connect_error" THEN RealClient
              ELSE disconnect(connect(RealClient))
    ELSE disconnect(body_client)

\* the client of the latest scheduler call after a tool that answered result
client_after(result, client) == IF result.backend = "" THEN pbs ELSE client

\* ---------------------------------------------------------------- submit
\* submit_pbs_job, lines 75-99: the script path and select spec to use
submit_resolve_any_script(d, base, script_path, workspace_id, select_spec) ==
    LET info == get_workspace(d, base, workspace_id)
    IN  IF workspace_id /= 0 /\ info = None
        THEN [error |-> "workspace_not_found", info |-> None,
              script_path |-> "", select_spec |-> <<>>]
        ELSE [error |-> "", info |-> info, script_path |-> info.script_path,
              select_spec |-> select_spec]

submit_resolve(d, base, script_path, workspace_id, select_spec) ==
    LET info == get_workspace(d, base, workspace_id)
    IN  IF workspace_id /= 0
        THEN IF info = None
             THEN [error |-> "workspace_not_found", info |-> None,
                   script_path |-> "", select_spec |-> <<>>]
             ELSE IF info.script_path = ""
             THEN [error |-> "no_submit_script", info |-> None,
                   script_path |-> "", select_spec |-> <<>>]
             ELSE [error |-> "", info |-> info,
                   script_path |-> info.script_path,
                   select_spec |->
                      IF /\ select_spec = <<>>
                         /\ info.metadata /= EmptyMetadata
                         /\ "num_nodes" \in DOMAIN info.metadata
                         /\ info.metadata["num_nodes"] /= 0
                      THEN ToDigits(info.metadata["num_nodes"])
                      ELSE select_spec]
        ELSE IF script_path = ""
             THEN [error |-> "no_script_or_workspace", info |-> None,
                   script_path |-> "", select_spec |-> <<>>]
             ELSE [error |-> "", info |-> None, script_path |-> script_path,
                   select_spec |-> select_spec]

\* submit_pbs_job, lines 119-134: the attribute map sent to the scheduler
build_attrs_empty_submap(account, job_name, select_spec, walltime, filesystems) ==
    [Account_Name |-> account,
     Resource_List |->
        (IF select_spec /= <<>>
         THEN [select |-> select_spec, place |-> "scatter"] ELSE EmptyDict)
        @@ (IF walltime /= <<>> THEN [walltime |-> walltime] ELSE EmptyDict)
        @@ (IF filesystems /= <<>> THEN [filesystems |-> filesystems]
            ELSE EmptyDict)]
    @@ (IF job_name /= <<>> THEN [Job_Name |-> job_name] ELSE EmptyDict)

build_attrs(account, job_name, select_spec, walltime, filesystems) ==
    LET resource_list ==
            (IF select_spec /= <<>>
             THEN [select |-> select_spec, place |-> "scatter"] ELSE EmptyDict)
            @@ (IF walltime /= <<>> THEN [walltime |-> walltime] ELSE EmptyDict)
            @@ (IF filesystems /= <<>> THEN [filesystems |-> filesystems]
                ELSE EmptyDict)
    IN  [Account_Name |-> account]
        @@ (IF job_name /= <<>> THEN [Job_Name |-> job_name] ELSE EmptyDict)
        @@ (IF resource_list /= EmptyDict
            THEN [Resource_List |-> resource_list] ELSE EmptyDict)

\* submit_pbs_job, lines 146-152: the workspace is updated after the submit
record_submission_failed(d, base, info, job_id) ==
    IF info /= None
    THEN update_workspace(d, base, info.workspace_id, "failed", job_id, "",
                          EmptyMetadata)
    ELSE d

record_submission(d, base, info, job_id) ==
    IF info /= None
    THEN update_workspace(d, base, info.workspace_id, "submitted", job_id, "",
                          EmptyMetadata)
    ELSE d

\* submit_pbs_job, whole:
\* [result |-> the answer, dirs |-> the store after, attrs |-> what was sent]
submit_outcome(d, base, client_class, answer, timestamp, script_path, workspace_id, queue, job_name, account, select_spec, walltime, filesystems) ==
    LET r == submit_resolve(d, base, script_path, workspace_id, select_spec)
        acct == validate_account(account)
        attrs == build_attrs(acct.value, job_name, r.select_spec, walltime,
                             filesystems)
        q == IF queue /= "" THEN queue
             ELSE IF get_default_queue /= "" THEN get_default_queue
             ELSE "workq"
        exc == get_pbs_client_raises(client_class, answer)
        job_id == IF client_class = "MockPBSClient"
                  THEN mock_submit(new_mock_client, r.script_path, q, attrs,
                                   timestamp).job_id
                  ELSE ToDigits(answer.number) \o <<".">> \o pbs_server
        body_client ==
            mock_submit(new_mock_client, r.script_path, q, attrs,
                        timestamp).client
        failed(error) ==
            [result |-> R([op |-> "submit_pbs_job", status |-> "failed",
                           error |-> error]),
             dirs |-> d, attrs |-> EmptyDict, client |-> NoClient]
    IN  IF r.error /= "" THEN failed(r.error)
        ELSE IF ~acct.ok THEN failed("account_required")
        ELSE IF walltime /= <<>> /\ ~validate_walltime(walltime)
             THEN failed("invalid_walltime")
        ELSE IF filesystems /= <<>> /\ ~validate_filesystems(filesystems)
             THEN failed("invalid_filesystems")
        ELSE IF exc /= ""
             THEN [result |-> tool_failure("submit_pbs_job", "failed", exc,
                                           client_class),
                   dirs |-> d, attrs |-> attrs,
                   client |-> with_exit(client_class, answer, new_mock_client)]
        ELSE [result |-> R([op |-> "submit_pbs_job", status |-> "submitted",
                            job_id |-> job_id, queue |-> q,
                            workspace_id |-> r.info.workspace_id,
                            workspace_path |-> r.info.path,
                            backend |-> client_class]),
              dirs |-> record_submission(d, base, r.info, job_id),
              attrs |-> attrs,
              client |-> with_exit(client_class, answer, body_client)]

submit_pbs_job(script_path, workspace_id, queue, job_name, account, select_spec, walltime, filesystems, answer) ==
    /\ pc = "serving"
    /\ LET o == submit_outcome(dirs, base_exists, PBSClient, answer, now,
                               script_path, workspace_id, queue, job_name,
                               account, select_spec, walltime, filesystems)
       IN  /\ dirs' = o.dirs
           /\ lastResult' = o.result
           /\ pbs' = client_after(o.result, o.client)
           /\ expected_jobs' =
                 IF o.result.status = "submitted" /\ PBSClient = "MockPBSClient"
                 THEN (o.result.job_id :> "Q") @@ expected_jobs
                 ELSE expected_jobs
    /\ UNCHANGED <<call, scan, startup, now, base_exists, eventLog>>

\* ------------------------------------------------- status, list and control
\* get_job_status: the answer
get_job_status_outcome(client_class, answer, job_id) ==
    LET exc == get_pbs_client_raises(client_class, answer)
        jobs == IF client_class = "MockPBSClient"
                THEN mock_stat_jobs(new_mock_client, job_id)
                ELSE answer.jobs
    IN  IF ~validate_job_id(job_id)
        THEN R([op |-> "get_job_status", error |-> "validation"])
        ELSE IF exc /= ""
             THEN tool_failure("get_job_status", "", exc, client_class)
        ELSE IF jobs = <<>>
             THEN R([op |-> "get_job_status", error |-> "job_not_found",
                     backend |-> client_class])
        ELSE \* format_job_status(jobs[0])
             R([op |-> "get_job_status", job_id |-> jobs[1].name,
                state |-> IF "job_state" \in DOMAIN jobs[1].attrs
                          THEN jobs[1].attrs["job_state"] ELSE "",
                backend |-> client_class])

get_job_status(job_id, answer) ==
    /\ pc = "serving"
    /\ lastResult' = get_job_status_outcome(PBSClient, answer, job_id)
    /\ pbs' = client_after(lastResult',
                           with_exit(PBSClient, answer, new_mock_client))
    /\ UNCHANGED <<call, scan, startup, store, expected_jobs>>

\* list_jobs: the answer
list_jobs_outcome(client_class, answer, state, queue) ==
    LET exc == get_pbs_client_raises(client_class, answer)
        listed == IF client_class = "MockPBSClient"
                  THEN IF state /= ""
                       THEN mock_select_jobs(new_mock_client, "job_state", state)
                       ELSE mock_stat_jobs(new_mock_client, <<>>)
                  ELSE answer.jobs
        jobs == IF queue /= ""
                THEN SelectSeq(listed, LAMBDA j : "queue" \in DOMAIN j.attrs
                                                  /\ j.attrs["queue"] = queue)
                ELSE listed
    IN  IF exc /= "" THEN tool_failure("list_jobs", "", exc, client_class)
        ELSE R([op |-> "list_jobs", total |-> Len(jobs),
                backend |-> client_class])

list_jobs(state, queue, answer) ==
    /\ pc = "serving"
    /\ lastResult' = list_jobs_outcome(PBSClient, answer, state, queue)
    /\ pbs' = client_after(lastResult',
                           with_exit(PBSClient, answer, new_mock_client))
    /\ UNCHANGED <<call, scan, startup, store, expected_jobs>>

\* delete_job, hold_job and release_job differ in the client call and in the
\* status they report: the answer of one of them
job_control_outcome(op, done_status, client_class, answer, job_id) ==
    LET exc == get_pbs_client_raises(client_class, answer)
    IN  IF ~validate_job_id(job_id)
        THEN R([op |-> op, status |-> "failed", error |-> "validation"])
        ELSE IF exc /= "" THEN tool_failure(op, "failed", exc, client_class)
        ELSE R([op |-> op, status |-> done_status, job_id |-> job_id,
                backend |-> client_class])

\* delete_job, hold_job and release_job (lines 248-331) make no call on the
\* workspace manager: the store after one of them.  The other policy would
\* bring the workspace that recorded the job in line with the scheduler.
job_control_store_synced(d, op, job_id) ==
    [p \in DOMAIN d |->
        IF d[p] /= None /\ d[p].job_id = job_id /\ op = "delete_job"
        THEN [d[p] EXCEPT !.status = "failed"]
        ELSE d[p]]

job_control_store(d, op, job_id) == d

\* the simulated client after the tool's one call on a new client
job_control_client(op, job_id) ==
    CASE op = "delete_job"  -> mock_delete_job(new_mock_client, job_id)
      [] op = "hold_job"    -> mock_hold_job(new_mock_client, job_id)
      [] op = "release_job" -> mock_release_job(new_mock_client, job_id)

delete_job(job_id, force, answer) ==
    /\ pc = "serving"
    /\ lastResult' =
          [job_control_outcome("delete_job", "deleted", PBSClient, answer, job_id)
              EXCEPT !.force = force]
    /\ expected_jobs' =
          IF lastResult'.status = "deleted"
          THEN [j \in DOMAIN expected_jobs \ {job_id} |-> expected_jobs[j]]
          ELSE expected_jobs
    /\ pbs' = client_after(lastResult',
                           with_exit(PBSClient, answer,
                                     job_control_client("delete_job", job_id)))
    /\ dirs' = job_control_store(dirs, "delete_job", job_id)
    /\ UNCHANGED <<call, scan, startup, now, base_exists, eventLog>>

hold_job(job_id, answer) ==
    /\ pc = "serving"
    /\ lastResult' =
          job_control_outcome("hold_job", "held", PBSClient, answer, job_id)
    /\ expected_jobs' =
          IF lastResult'.status = "held" /\ job_id \in DOMAIN expected_jobs
          THEN [expected_jobs EXCEPT ![job_id] = "H"]
          ELSE expected_jobs
    /\ pbs' = client_after(lastResult',
                           with_exit(PBSClient, answer,
                                     job_control_client("hold_job", job_id)))
    /\ dirs' = job_control_store(dirs, "hold_job", job_id)
    /\ UNCHANGED <<call, scan, startup, now, base_exists, eventLog>>

release_job(job_id, answer) ==
    /\ pc = "serving"
    /\ lastResult' =
          job_control_outcome("release_job", "released", PBSClient, answer, job_id)
    /\ expected_jobs' =
          IF lastResult'.status = "released" /\ job_id \in DOMAIN expected_jobs
          THEN [expected_jobs EXCEPT ![job_id] = "Q"]
          ELSE expected_jobs
    /\ pbs' = client_after(lastResult',
                           with_exit(PBSClient, answer,
                                     job_control_client("release_job", job_id)))
    /\ dirs' = job_control_store(dirs, "release_job", job_id)
    /\ UNCHANGED <<call, scan, startup, now, base_exists, eventLog>>

\* ------------------------------------------- get_workspace_info, stepwise
\* workspace_tools.get_workspace_info calls get_workspace, which walks the
\* directories of the store root and, per directory, first asks whether the
\* metadata file exists and then opens it (_load_workspace_metadata lines
\* 112-118).  Other callers' operations run between these steps.
NoScan ==
    [stage |-> "idle", workspace_id |-> 0, todo |-> {}, current |-> NoPath,
     expected |-> None]

\* the answer of get_workspace_info for what get_workspace returned
get_workspace_info_result(workspace_id, info) ==
    IF info = None
    THEN R([op |-> "get_workspace_info", status |-> "not_found",
            error |-> "not_found"])
    ELSE R([op |-> "get_workspace_info", status |-> info.status,
            workspace_id |-> info.workspace_id, job_id |-> info.job_id])

\* the call starts: iterdir() lists the store root (lines 183-186)
get_workspace_info_begin(workspace_id) ==
    /\ pc = "serving"
    /\ scan.stage = "idle"
    /\ scan' = [stage |-> "iterating", workspace_id |-> workspace_id,
                todo |-> IF base_exists THEN DOMAIN dirs ELSE {},
                current |-> NoPath,
                expected |-> get_workspace(dirs, base_exists, workspace_id)]
    /\ UNCHANGED <<call, startup, store, lastResult, expected_jobs, pbs>>

\* the next directory: is_dir() and metadata_file.exists() (lines 187, 113);
\* a directory that is gone, or has no metadata file, is passed over
get_workspace_info_exists(path) ==
    /\ scan.stage = "iterating"
    /\ path \in scan.todo
    /\ scan' = IF path \in DOMAIN dirs /\ dirs[path] /= None
               THEN [scan EXCEPT !.stage = "opening", !.current = path,
                                 !.todo = @ \ {path}]
               ELSE [scan EXCEPT !.todo = @ \ {path}]
    /\ UNCHANGED <<call, startup, store, lastResult, expected_jobs, pbs>>

\* open() and json.load of the metadata file (lines 116-118): open raises
\* FileNotFoundError when the file has been removed since exists(), from_dict
\* raises TypeError on an array, and nothing between here and the tool's
\* caller catches either
get_workspace_info_open ==
    /\ scan.stage = "opening"
    /\ IF scan.current \notin DOMAIN dirs
       THEN /\ lastResult' = R([op |-> "get_workspace_info",
                                escaped |-> "FileNotFoundError"])
            /\ scan' = NoScan
       ELSE IF load_escapes(dirs, scan.current) /= ""
       THEN /\ lastResult' = R([op |-> "get_workspace_info",
                                escaped |-> load_escapes(dirs, scan.current)])
            /\ scan' = NoScan
       ELSE LET info == _load_workspace_metadata(dirs, scan.current)
            IN  IF info /= None /\ info.workspace_id = scan.workspace_id
                THEN /\ lastResult' =
                           get_workspace_info_result(scan.workspace_id, info)
                     /\ scan' = NoScan
                ELSE /\ scan' = [scan EXCEPT !.stage = "iterating",
                                             !.current = NoPath]
                     /\ UNCHANGED lastResult
    /\ UNCHANGED <<call, startup, store, expected_jobs, pbs>>

\* the walk is over and no directory carried the id (line 193)
get_workspace_info_end ==
    /\ scan.stage = "iterating"
    /\ scan.todo = {}
    /\ lastResult' = get_workspace_info_result(scan.workspace_id, None)
    /\ scan' = NoScan
    /\ UNCHANGED <<call, startup, store, expected_jobs, pbs>>

\* ------------------------------------- update, submit and cleanup in steps
\* A call is a sequence of reads and writes of the store with nothing that
\* keeps other callers out in between (no lock is taken anywhere).  The call
\* in progress, with the values it holds in local variables:
NoCall ==
    [op |-> "", workspace_id |-> 0, info |-> None, force |-> FALSE,
     result |-> NoResult, client |-> NoClient]

\* update_workspace, lines 264-275: the record is loaded and the supplied
\* fields are set on the copy in memory
update_workspace_load(workspace_id, status, job_id, script_path, metadata) ==
    /\ pc = "serving"
    /\ call = NoCall
    /\ LET info == get_workspace(dirs, base_exists, workspace_id)
       IN  IF info = None
           THEN /\ lastResult' = R([op |-> "update_workspace",
                                    error |-> "not_found"])
                /\ UNCHANGED call
           ELSE /\ call' = [NoCall EXCEPT
                              !.op = "update_workspace",
                              !.workspace_id = workspace_id,
                              !.info = apply_update(info, status, job_id,
                                                    script_path, metadata)]
                /\ UNCHANGED lastResult
    /\ UNCHANGED <<scan, startup, store, expected_jobs, pbs>>

\* update_workspace, line 277: the copy in memory is written over the file;
\* open(..., "w") raises FileNotFoundError when the directory is gone
update_workspace_save ==
    /\ call.op = "update_workspace"
    /\ IF call.info.path \in DOMAIN dirs
       THEN /\ dirs' = _save_workspace_metadata(dirs, call.info)
            /\ lastResult' = R([op |-> "update_workspace",
                                workspace_id |-> call.workspace_id])
       ELSE /\ lastResult' = R([op |-> "update_workspace",
                                escaped |-> "FileNotFoundError"])
            /\ UNCHANGED dirs
    /\ call' = NoCall
    /\ UNCHANGED <<scan, startup, now, base_exists, eventLog, expected_jobs, pbs>>

\* submit_pbs_job with a workspace id, lines 75-143: everything up to and
\* with pbs.submit.  A call that fails before or in pbs.submit returns here.
submit_pbs_job_send(script_path, workspace_id, queue, job_name, account, select_spec, walltime, filesystems, answer) ==
    /\ pc = "serving"
    /\ call = NoCall
    /\ workspace_id /= 0
    /\ LET o == submit_outcome(dirs, base_exists, PBSClient, answer, now,
                               script_path, workspace_id, queue, job_name,
                               account, select_spec, walltime, filesystems)
       IN  IF o.result.status = "submitted"
           THEN /\ call' = [NoCall EXCEPT
                              !.op = "submit_pbs_job",
                              !.workspace_id = workspace_id,
                              !.info = get_workspace(dirs, base_exists,
                                                     workspace_id),
                              !.result = o.result,
                              !.client = connect(o.client)]
                /\ expected_jobs' =
                      IF PBSClient = "MockPBSClient"
                      THEN (o.result.job_id :> "Q") @@ expected_jobs
                      ELSE expected_jobs
                /\ UNCHANGED <<lastResult, pbs>>
           ELSE /\ lastResult' = o.result
                /\ pbs' = client_after(o.result, o.client)
                /\ UNCHANGED <<call, expected_jobs>>
    /\ UNCHANGED <<scan, startup, store>>

\* submit_pbs_job, lines 146-163: the workspace is updated, the answer is
\* built from the record read at the start, the with-block is left
submit_pbs_job_record ==
    /\ call.op = "submit_pbs_job"
    /\ dirs' = record_submission(dirs, base_exists, call.info,
                                 call.result.job_id)
    /\ lastResult' = call.result
    /\ pbs' = disconnect(call.client)
    /\ call' = NoCall
    /\ UNCHANGED <<scan, startup, now, base_exists, eventLog, expected_jobs>>

\* workspace_tools.cleanup_workspace and WorkspaceManager.cleanup_workspace,
\* lines 291-302: the record is looked up and its status checked
cleanup_workspace_check(workspace_id, force) ==
    /\ pc = "serving"
    /\ call = NoCall
    /\ LET info == get_workspace(dirs, base_exists, workspace_id)
       IN  IF info = None
           THEN /\ lastResult' = R([op |-> "cleanup_workspace",
                                    status |-> "not_found",
                                    error |-> "not_found", force |-> force])
                /\ UNCHANGED call
           ELSE IF cleanup_refused(info, force)
           THEN /\ lastResult' = R([op |-> "cleanup_workspace",
                                    status |-> "not_removed",
                                    workspace_id |-> workspace_id,
                                    force |-> force])
                /\ UNCHANGED call
           ELSE /\ call' = [NoCall EXCEPT !.op = "cleanup_workspace",
                                          !.workspace_id = workspace_id,
                                          !.info = info, !.force = force]
                /\ UNCHANGED lastResult
    /\ UNCHANGED <<scan, startup, store, expected_jobs, pbs>>

\* WorkspaceManager.cleanup_workspace, lines 304-310: the directory found at
\* the lookup is removed if it is still there
cleanup_workspace_remove ==
    /\ call.op = "cleanup_workspace"
    /\ IF call.info.path \in DOMAIN dirs
       THEN /\ dirs' = rmtree(dirs, call.info.path)
            /\ eventLog' = Append(eventLog, [kind |-> "remove",
                                             workspace_id |-> call.workspace_id,
                                             path |-> call.info.path])
            /\ lastResult' = R([op |-> "cleanup_workspace",
                                status |-> "removed",
                                workspace_id |-> call.workspace_id,
                                force |-> call.force])
       ELSE /\ lastResult' = R([op |-> "cleanup_workspace",
                                status |-> "not_removed",
                                workspace_id |-> call.workspace_id,
                                force |-> call.force])
            /\ UNCHANGED <<dirs, eventLog>>
    /\ call' = NoCall
    /\ UNCHANGED <<scan, startup, now, base_exists, expected_jobs, pbs>>

\* ------------------------------------------------------ list_workspaces
ToolListLimit == 20

\* workspace_tools.list_workspaces: the ids of the listed workspaces and
\* their count; an exception of the walk leaves the tool
list_workspaces_tool(status, cut) ==
    /\ pc = "serving"
    /\ cut \in list_cuts(dirs, base_exists, status, ToolListLimit)
    /\ lastResult' =
          IF base_exists /\ \E p \in DOMAIN dirs : load_escapes(dirs, p) /= ""
          THEN R([op |-> "list_workspaces", escaped |-> "TypeError"])
          ELSE LET found == list_workspaces(dirs, base_exists, status, cut)
               IN  R([op |-> "list_workspaces", status |-> "success",
                      workspaces |-> {w.workspace_id : w \in found},
                      total |-> Cardinality(found)])
    /\ UNCHANGED <<call, scan, startup, store, expected_jobs, pbs>>

\* The metadata file of a workspace directory is damaged from outside the
\* server: removed, overwritten with text that is no JSON, with a JSON
\* array, or with the object less one required key.
FileDamages == {"missing", "unparsable", "array", "no_system"}

damage_metadata(path, kind) ==
    /\ pc = "serving"
    /\ scan.stage = "idle"
    /\ path \in DOMAIN dirs
    /\ _load_workspace_metadata(dirs, path) /= None
    /\ dirs' = [dirs EXCEPT ![path] =
                   CASE kind = "missing" -> None
                     [] kind = "unparsable" -> UnparsableFile
                     [] kind = "array" -> ArrayFile
                     [] kind = "no_system" -> without_field(@, "system")]
    /\ UNCHANGED <<call, scan, startup, now, base_exists, eventLog, lastResult,
                   expected_jobs, pbs>>

\* ----------------------------------------------------------- specification
NoDirs == [p \in {} |-> None]

Init ==
    /\ pc = "import"
    /\ environ_mock \in {"", "1"}
    /\ PBSClient = "None"
    /\ now = 0
    /\ base_exists = FALSE
    /\ dirs = NoDirs
    /\ lastResult = NoResult
    /\ eventLog = <<>>
    /\ expected_jobs = EmptyDict
    /\ pbs = NoClient
    /\ scan = NoScan
    /\ call = NoCall

\* ------------------------------------------------------------------ inputs
WorkspaceIds == 1..MaxIds

\* uuid4 values stand for nothing but themselves: the draw is the smallest
\* value not handed out yet
IsNextId(i) == i \in FreshIds /\ \A j \in FreshIds : i <= j

MockJobId == mock_job_id(new_mock_client)

JobIds == {MockJobId, <<"9", ".", "p", "b", "s">>, <<"x">>}

BadWalltime == <<"1", "h">>

BadFilesystems == <<"f", ":">>

\* update_workspace as its callers use it: one field at a time
UpdateCalls ==
    {[status |-> "", script_path |-> "submit.sh", metadata |-> EmptyMetadata],
     [status |-> "completed", script_path |-> "", metadata |-> EmptyMetadata],
     [status |-> "failed", script_path |-> "", metadata |-> EmptyMetadata],
     [status |-> "", script_path |-> "", metadata |-> [num_nodes |-> 2]]}

SubmitCall(script_path, workspace_id, queue, account, walltime, filesystems) ==
    [script_path |-> script_path, workspace_id |-> workspace_id,
     queue |-> queue, account |-> account, walltime |-> walltime,
     filesystems |-> filesystems]

SubmitCalls ==
    {SubmitCall("", i, "prod", <<" ", "p">>, <<>>, <<>>) : i \in 0..MaxIds}
    \cup {SubmitCall("", i, "prod", <<" ">>, <<>>, <<>>) : i \in WorkspaceIds}
    \cup {SubmitCall("", i, "prod", <<"p">>, BadWalltime, <<>>) : i \in WorkspaceIds}
    \cup {SubmitCall("job.sh", 0, "", <<"p">>, <<>>, <<>>),
          SubmitCall("job.sh", 0, "", <<" ">>, <<>>, <<>>),
          SubmitCall("job.sh", 0, "", <<"p">>, BadWalltime, <<>>),
          SubmitCall("job.sh", 0, "", <<"p">>, <<>>, BadFilesystems)}

Next ==
    \/ \E available \in BOOLEAN : ImportModules(available)
    \/ \E args_mock \in BOOLEAN : Main(args_mock)
    \/ \E i \in WorkspaceIds :
          IsNextId(i) /\ create_job_workspace(<<"a", " ">>, "", i)
    \/ \E i \in WorkspaceIds, u \in UpdateCalls :
          update_workspace_call(i, u.status, <<>>, u.script_path, u.metadata)
    \/ \E i \in WorkspaceIds, force \in BOOLEAN : cleanup_workspace_tool(i, force)
    \/ \E c \in SubmitCalls, answer \in Answers :
          submit_pbs_job(c.script_path, c.workspace_id, c.queue, <<>>, c.account,
                         <<>>, c.walltime, c.filesystems, answer)
    \/ \E j \in JobIds, answer \in Answers : get_job_status(j, answer)
    \/ \E q \in {"", "prod"}, answer \in Answers : list_jobs("", q, answer)
    \/ \E j \in JobIds, answer \in Answers : delete_job(j, FALSE, answer)
    \/ \E j \in JobIds, answer \in Answers : hold_job(j, answer)
    \/ \E j \in JobIds, answer \in Answers : release_job(j, answer)

Spec == Init /\ [][Next]_vars

\* The workspace store on its own, with the clock running: a server that has
\* started with the simulated backend, and callers that create, update and
\* clean up workspaces.
InitStore ==
    /\ pc = "serving"
    /\ environ_mock = "1"
    /\ PBSClient = "MockPBSClient"
    /\ now = 0
    /\ base_exists = FALSE
    /\ dirs = NoDirs
    /\ lastResult = NoResult
    /\ eventLog = <<>>
    /\ expected_jobs = EmptyDict
    /\ pbs = NoClient
    /\ scan = NoScan
    /\ call = NoCall

JobNames == {<<"a", " ">>, <<"b">>}

Descriptions == {"", "d1"}

StoreStatuses == {"", "submitted", "completed"}

Patches == {EmptyMetadata, [num_nodes |-> 2], [description |-> "d2"]}

\* the store under the clock: creation, status updates and cleanup
NextStore ==
    \/ Tick
    \/ \E n \in JobNames, i \in WorkspaceIds :
          IsNextId(i) /\ create_job_workspace(n, "", i)
    \/ \E i \in WorkspaceIds, st \in StoreStatuses \ {""} :
          update_workspace_call(i, st, <<>>, "", EmptyMetadata)
    \/ \E i \in WorkspaceIds, force \in BOOLEAN : cleanup_workspace_tool(i, force)

SpecStore == InitStore /\ [][NextStore]_vars

\* the store within one clock second: creation with and without a
\* description, updates that carry a status, a metadata patch, both or
\* neither, and forced cleanup
NextMeta ==
    \/ \E n \in JobNames, d \in Descriptions, i \in WorkspaceIds :
          IsNextId(i) /\ create_job_workspace(n, d, i)
    \/ \E i \in WorkspaceIds, st \in StoreStatuses, m \in Patches :
          update_workspace_call(i, st, <<>>, "", m)
    \/ \E i \in WorkspaceIds : cleanup_workspace_tool(i, TRUE)

SpecMeta == InitStore /\ [][NextMeta]_vars

\* A store that has been in use for years: BacklogSize finished workspaces,
\* one made per day, the newest a day before the server started.
BacklogSize == 1001

BacklogInfo(k) ==
    [WorkspaceInfo(MaxIds + k,
                   _get_workspace_dirname(
                       <<"b">>, 0 - k * SecondsPerDay * TicksPerSecond),
                   <<"b">>, 0 - k * SecondsPerDay * TicksPerSecond,
                   EmptyMetadata)
        EXCEPT !.status = "completed"]

Backlog == {BacklogInfo(k) : k \in 1..BacklogSize}

InitOld ==
    /\ pc = "serving"
    /\ environ_mock = "1"
    /\ PBSClient = "MockPBSClient"
    /\ now = 0
    /\ base_exists = TRUE
    /\ dirs = [p \in {info.path : info \in Backlog} |->
                  CHOOSE info \in Backlog : info.path = p]
    /\ lastResult = NoResult
    /\ eventLog = <<>>
    /\ expected_jobs = EmptyDict
    /\ pbs = NoClient
    /\ scan = NoScan
    /\ call = NoCall

\* the id of the oldest workspace of the backlog
BacklogOldest == MaxIds + BacklogSize

NextOld ==
    \/ \E n \in JobNames, i \in WorkspaceIds :
          IsNextId(i) /\ create_job_workspace(n, "", i)
    \/ \E st \in {"submitted", "failed"} :
          update_workspace_call(BacklogOldest, st, <<>>, "", EmptyMetadata)
    \/ \E days \in {0, 1},
          cut \in list_cuts(dirs, base_exists, "", OldListLimit) :
          cleanup_old_workspaces_call(days, cut)

SpecOld == InitOld /\ [][NextOld]_vars

\* A store whose metadata files get damaged between calls of the workspace
\* tools; no call runs while another is under way.
NextDamaged ==
    \/ \E n \in JobNames, i \in WorkspaceIds :
          scan.stage = "idle" /\ IsNextId(i) /\ create_job_workspace(n, "", i)
    \/ \E p \in DOMAIN dirs, kind \in FileDamages : damage_metadata(p, kind)
    \/ \E i \in WorkspaceIds \ FreshIds : get_workspace_info_begin(i)
    \/ \E p \in scan.todo : get_workspace_info_exists(p)
    \/ get_workspace_info_open
    \/ get_workspace_info_end
    \/ \E st \in {"", "active"} :
          \E cut \in list_cuts(dirs, base_exists, st, ToolListLimit) :
             scan.stage = "idle" /\ list_workspaces_tool(st, cut)

SpecDamaged == InitStore /\ [][NextDamaged]_vars

\* Job ids of every shape: the texts of up to MaxJobIdLen characters drawn
\* from a digit, the dot, a letter, a blank and a newline.
MaxJobIdLen == 3

JobIdChars == {"1", ".", "a", " ", "\n"}

JobIdInputs == UNION {[1..n -> JobIdChars] : n \in 0..MaxJobIdLen}

NextJobIds ==
    \/ \E available \in BOOLEAN : ImportModules(available)
    \/ \E args_mock \in BOOLEAN : Main(args_mock)
    \/ \E j \in JobIdInputs, answer \in Answers : get_job_status(j, answer)
    \/ \E j \in JobIdInputs, force \in BOOLEAN, answer \in Answers :
          delete_job(j, force, answer)
    \/ \E j \in JobIdInputs, answer \in Answers : hold_job(j, answer)
    \/ \E j \in JobIdInputs, answer \in Answers : release_job(j, answer)

SpecJobIds == Init /\ [][NextJobIds]_vars

\* Callers of the store that create workspaces with metadata of every kind
\* of value and read them back; nothing updates or removes a workspace.
MetadataInputs ==
    {EmptyMetadata, [description |-> "d1"], [num_nodes |-> 2],
     [dims |-> PyList(<<1, 2>>)], [dims |-> PyTuple(<<1, 2>>)]}

NextRoundTrip ==
    \/ Tick
    \/ \E n \in JobNames, m \in MetadataInputs, i \in WorkspaceIds :
          IsNextId(i) /\ create_workspace_call(n, m, i)
    \/ \E i \in WorkspaceIds : get_workspace_call(i)

SpecRoundTrip == InitStore /\ [][NextRoundTrip]_vars

\* Callers of the store that look up and remove workspaces, among them ids
\* no workspace carries, from a store root that does not exist yet onwards.
NextAbsent ==
    \/ \E n \in JobNames, i \in WorkspaceIds :
          IsNextId(i) /\ create_job_workspace(n, "", i)
    \/ \E i \in WorkspaceIds : get_workspace_call(i)
    \/ \E i \in WorkspaceIds, force \in BOOLEAN : cleanup_workspace_call(i, force)

SpecAbsent == InitStore /\ [][NextAbsent]_vars

\* Callers that work on the same workspace at the same time: one call runs
\* in steps, and whole calls of other callers come in between its steps.
RaceUpdates ==
    {[status |-> "", script_path |-> "submit.sh"],
     [status |-> "completed", script_path |-> ""]}

NextRace ==
    \/ \E i \in WorkspaceIds : IsNextId(i) /\ create_job_workspace(<<"b">>, "", i)
    \/ \E i \in WorkspaceIds, u \in RaceUpdates :
          update_workspace_call(i, u.status, <<>>, u.script_path, EmptyMetadata)
    \/ \E i \in WorkspaceIds, u \in RaceUpdates :
          update_workspace_load(i, u.status, <<>>, u.script_path, EmptyMetadata)
    \/ update_workspace_save
    \/ \E i \in WorkspaceIds :
          submit_pbs_job("", i, "prod", <<>>, <<"p">>, <<>>, <<>>, <<>>, NoAnswer)
    \/ \E i \in WorkspaceIds :
          submit_pbs_job_send("", i, "prod", <<>>, <<"p">>, <<>>, <<>>, <<>>,
                              NoAnswer)
    \/ submit_pbs_job_record
    \/ \E i \in WorkspaceIds, force \in BOOLEAN : cleanup_workspace_tool(i, force)
    \/ \E i \in WorkspaceIds : cleanup_workspace_check(i, FALSE)
    \/ cleanup_workspace_remove

SpecRace == InitStore /\ [][NextRace]_vars

\* Two callers on different workspaces: one runs get_workspace_info, step by
\* step, for an id that create has handed out; the other creates, updates
\* and cleans up workspaces with other ids in between.
NextConcurrent ==
    \/ \E i \in WorkspaceIds \ FreshIds : get_workspace_info_begin(i)
    \/ \E p \in scan.todo : get_workspace_info_exists(p)
    \/ get_workspace_info_open
    \/ get_workspace_info_end
    \/ \E n \in JobNames, i \in WorkspaceIds :
          IsNextId(i) /\ create_job_workspace(n, "", i)
    \/ \E i \in WorkspaceIds \ {scan.workspace_id} :
          update_workspace_call(i, "completed", <<>>, "", EmptyMetadata)
    \/ \E i \in WorkspaceIds \ {scan.workspace_id} :
          cleanup_workspace_tool(i, TRUE)

SpecConcurrent == InitStore /\ [][NextConcurrent]_vars

\* ------------------------------------------------------------------ claims
SimulatedServer == MockPBSClient(pbs_server).server

\* a text of the form <digits>.<server>
JobIdOfServer(job_id, server) ==
    \E k \in 2..Len(job_id) :
        /\ job_id[k] = "."
        /\ \A i \in 1..(k - 1) : IsDigit(job_id[i])
        /\ SubSeq(job_id, k + 1, Len(job_id)) = server

\* what C1 promises of a submit by workspace id x: the answer carries a job
\* id of the scheduler's form and get(x) then shows it, with status submitted
SubmittedAndRecorded(x) ==
    /\ lastResult'.status = "submitted"
    /\ JobIdOfServer(lastResult'.job_id, SimulatedServer)
    /\ get_workspace(dirs', base_exists', x).status = "submitted"
    /\ get_workspace(dirs', base_exists', x).job_id = lastResult'.job_id

SubmitStep(c) ==
    submit_pbs_job(c.script_path, c.workspace_id, c.queue, <<>>, c.account,
                   <<>>, c.walltime, c.filesystems, NoAnswer)

\* C1, as claimed: for a workspace X that create has just returned, submit by
\* workspace id X with a non-empty account and an explicit queue against the
\* simulated backend returns a job id <digits>.<server name>, and get(X) then
\* shows status submitted and that job id.
C1_SubmitRightAfterCreate ==
    [][\A c \in SubmitCalls :
          (/\ lastResult'.op = "submit_pbs_job"
           /\ PBSClient = "MockPBSClient"
           /\ lastResult.op = "create_job_workspace"
           /\ lastResult.status = "created"
           /\ c.workspace_id = lastResult.workspace_id
           /\ c.account /= <<>> /\ c.queue /= ""
           /\ SubmitStep(c))
          => SubmittedAndRecorded(c.workspace_id)]_vars

\* C1, amended: for a workspace X whose script path has been recorded, submit
\* by workspace id X with an account that is not blank, an explicit queue and
\* no malformed walltime or filesystems against the simulated backend returns
\* a job id <digits>.<server name>, and get(X) then shows status submitted
\* and that job id.
C1_SubmitAfterScriptRecorded ==
    [][\A c \in SubmitCalls :
          (/\ lastResult'.op = "submit_pbs_job"
           /\ PBSClient = "MockPBSClient"
           /\ c.workspace_id /= 0
           /\ get_workspace(dirs, base_exists, c.workspace_id).script_path /= ""
           /\ Strip(c.account) /= <<>> /\ c.queue /= ""
           /\ (c.walltime = <<>> \/ WALLTIME_REGEX_match(c.walltime))
           /\ (c.filesystems = <<>> \/ FILESYSTEMS_REGEX_match(c.filesystems))
           /\ SubmitStep(c))
          => SubmittedAndRecorded(c.workspace_id)]_vars

C1_Witness ==
    /\ lastResult.op = "submit_pbs_job"
    /\ lastResult.status = "submitted"
    /\ lastResult.backend = "MockPBSClient"
    /\ lastResult.workspace_id /= 0
    /\ get_workspace(dirs, base_exists, lastResult.workspace_id).job_id
          = lastResult.job_id

\* C2: a job id that submit returned from the simulated backend, and that no
\* delete_job removed, is still known to a later get_job_status: the answer
\* is its status record (queued, or held after hold_job), not a failure.
C2_JobStaysTracked ==
    [][\A j \in DOMAIN expected_jobs :
          (/\ lastResult'.op = "get_job_status"
           /\ PBSClient = "MockPBSClient"
           /\ get_job_status(j, NoAnswer))
          => /\ lastResult'.error = ""
             /\ lastResult'.job_id = j
             /\ lastResult'.state = expected_jobs[j]]_vars

\* C3: no failure leaves a job tool as an exception: connection failures and
\* scheduler errors come back as a result carrying an error.
C3_NoFailureEscapes == lastResult.escaped = ""

\* C4: cleanup without force on an active or submitted workspace answers
\* not_removed and leaves the store as it was; cleanup with force on an
\* existing workspace removes its directory, and get then finds nothing.
C4_DeletionGuard ==
    [][\A x \in WorkspaceIds :
          LET info == get_workspace(dirs, base_exists, x)
          IN  /\ (/\ lastResult'.op = "cleanup_workspace"
                  /\ info /= None
                  /\ info.status \in {"active", "submitted"}
                  /\ cleanup_workspace_tool(x, FALSE))
                 => (lastResult'.status = "not_removed" /\ dirs' = dirs)
              /\ (/\ lastResult'.op = "cleanup_workspace"
                  /\ info /= None
                  /\ cleanup_workspace_tool(x, TRUE))
                 => /\ lastResult'.status = "removed"
                    /\ info.path \notin DOMAIN dirs'
                    /\ get_workspace(dirs', base_exists', x) = None]_vars

C4_Witness ==
    /\ lastResult.op = "cleanup_workspace"
    /\ lastResult.status = "not_removed"
    /\ ~lastResult.force
    /\ get_workspace(dirs, base_exists, lastResult.workspace_id).status
          = "submitted"

\* C5: a workspace whose status is completed or failed keeps that status
\* through every step that is not an update call, unless cleanup removes it.
C5_TerminalStatusKept ==
    [][\A p \in DOMAIN dirs :
          (dirs[p].status \in {"completed", "failed"}
           /\ lastResult'.op /= "update_workspace")
          => \/ (p \notin DOMAIN dirs' /\ lastResult'.op = "cleanup_workspace")
             \/ (p \in DOMAIN dirs' /\ dirs'[p].status = dirs[p].status)]_vars

\* C6: the client class bound at startup never changes, and once the server
\* runs with the simulated-backend flag set (by the environment or by --mock)
\* every scheduler call is served by the simulated backend.
C6_MockFlagSelectsSimulated ==
    [][/\ (pc = "serving" => PBSClient' = PBSClient)
       /\ (pc' = "serving" /\ is_mock_mode(environ_mock')
           /\ lastResult'.backend /= "")
          => lastResult'.backend = "MockPBSClient"]_vars

SameSecondSameName(n) ==
    \E p \in DOMAIN dirs :
        /\ dirs[p].job_name = n
        /\ ts_str(dirs[p].created_at) = ts_str(now)

\* C7: a create in the clock second of an earlier create with the same job
\* name succeeds too, and the store then holds one more directory.
C7_SameSecondCreatesSucceed ==
    [][\A n \in JobNames, d \in Descriptions, i \in WorkspaceIds :
          (/\ lastResult'.op = "create_job_workspace"
           /\ SameSecondSameName(n)
           /\ create_job_workspace(n, d, i))
          => /\ lastResult'.status = "created"
             /\ Cardinality(DOMAIN dirs') = Cardinality(DOMAIN dirs) + 1]_vars

Created == {i \in 1..Len(eventLog) : eventLog[i].kind = "create"}

Removed == {i \in 1..Len(eventLog) : eventLog[i].kind = "remove"}

C9_PathNeverReused ==
    \A i, j \in Created : i /= j => eventLog[i].path /= eventLog[j].path

\* C10: update with a non-empty metadata patch P on a workspace with metadata
\* M leaves exactly the keys of M and P, each key of P with P's value and
\* every other key of M with M's value.
C10_MetadataMerged ==
    [][\A x \in WorkspaceIds, st \in StoreStatuses,
          P \in Patches \ {EmptyMetadata} :
          LET M == get_workspace(dirs, base_exists, x).metadata
              N == get_workspace(dirs', base_exists', x).metadata
          IN  (/\ lastResult'.op = "update_workspace"
               /\ get_workspace(dirs, base_exists, x) /= None
               /\ update_workspace_call(x, st, <<>>, "", P))
              => /\ DOMAIN N = DOMAIN M \cup DOMAIN P
                 /\ \A k \in DOMAIN P : N[k] = P[k]
                 /\ \A k \in DOMAIN M \ DOMAIN P : N[k] = M[k]]_vars

C10_Witness ==
    /\ lastResult.op = "update_workspace"
    /\ \E p \in DOMAIN dirs :
          /\ dirs[p].workspace_id = lastResult.workspace_id
          /\ DOMAIN dirs[p].metadata = {"description", "num_nodes"}
          /\ dirs[p].metadata["description"] = "d1"
          /\ dirs[p].metadata["num_nodes"] = 2

SubmitStepAnswered(c, answer) ==
    submit_pbs_job(c.script_path, c.workspace_id, c.queue, <<>>, c.account,
                   <<>>, c.walltime, c.filesystems, answer)

\* the script of the call resolves (submit_pbs_job lines 75-99 return nothing)
Resolves(c) ==
    submit_resolve(dirs, base_exists, c.script_path, c.workspace_id, <<>>).error
        = ""

\* no scheduler session was opened by the step and no record changed
NoSchedulerCall ==
    /\ lastResult'.backend = ""
    /\ expected_jobs' = expected_jobs
    /\ dirs' = dirs

\* C11, as claimed: submit with an empty or blank account answers a failure
\* whose error is the validation error, whatever the other arguments, and
\* opens no scheduler session and changes no workspace record.
C11_BlankAccountIsValidationError ==
    [][\A c \in SubmitCalls, answer \in Answers :
          (/\ lastResult'.op = "submit_pbs_job"
           /\ Strip(c.account) = <<>>
           /\ SubmitStepAnswered(c, answer))
          => /\ lastResult'.status = "failed"
             /\ lastResult'.error = "account_required"
             /\ NoSchedulerCall]_vars

\* C11, amended: submit with an empty or blank account answers a failure,
\* opens no scheduler session and changes no workspace record; the error is
\* the account validation error when the script of the call resolves, and the
\* error of the resolution (workspace not found, no submit script, neither
\* script nor workspace given) when it does not.
C11_BlankAccountRefused ==
    [][\A c \in SubmitCalls, answer \in Answers :
          (/\ lastResult'.op = "submit_pbs_job"
           /\ Strip(c.account) = <<>>
           /\ SubmitStepAnswered(c, answer))
          => /\ lastResult'.status = "failed"
             /\ lastResult'.escaped = ""
             /\ IF Resolves(c)
                THEN lastResult'.error = "account_required"
                ELSE lastResult'.error \in {"workspace_not_found",
                                            "no_submit_script",
                                            "no_script_or_workspace"}
             /\ NoSchedulerCall]_vars

C11_Witness ==
    /\ lastResult.op = "submit_pbs_job"
    /\ lastResult.status = "failed"
    /\ lastResult.error = "account_required"
    /\ lastResult.backend = ""
    /\ \E p \in DOMAIN dirs : dirs[p].script_path /= ""

GetReturns == scan.stage /= "idle" /\ scan'.stage = "idle"

\* C13: a get of one workspace, run while other callers create, update and
\* clean up workspaces with other ids, raises nothing and answers what it
\* would have answered alone: the record the workspace had when the call
\* began.
C13_GetUndisturbedByOthers ==
    [][GetReturns
       => /\ lastResult'.escaped = ""
          /\ lastResult' =
                get_workspace_info_result(scan.workspace_id, scan.expected)]_vars

JobOps ==
    {"submit_pbs_job", "get_job_status", "list_jobs", "delete_job", "hold_job",
     "release_job"}

WorkspaceOps == {"create_job_workspace", "get_workspace_info", "cleanup_workspace"}

Discriminators ==
    {"created", "submitted", "deleted", "held", "released", "removed",
     "not_removed", "failed", "not_found", "success"}

\* C14: every answer of a workspace or job tool carries a status out of
\* created, submitted, deleted, held, released, removed, not_removed, failed,
\* not_found, success, and every failure answer of a job tool carries its
\* error together with the status failed.
C14_StatusDiscriminator ==
    (lastResult.op \in JobOps \cup WorkspaceOps /\ lastResult.escaped = "")
    => /\ lastResult.status \in Discriminators
       /\ (lastResult.op \in JobOps /\ lastResult.error /= "")
          => lastResult.status = "failed"

\* the workspaces cleanup_old_workspaces(days) is to remove: finished, and
\* created before the cutoff
DueForRemoval(days) ==
    {p \in DOMAIN dirs :
        /\ dirs[p] /= None
        /\ dirs[p].status \in {"completed", "failed"}
        /\ dirs[p].created_at < cutoff(now, days)}

\* C15: cleanup_old_workspaces examines every workspace of the store, however
\* many there are: it removes exactly the completed and failed ones created
\* before the cutoff, so never an active or submitted one, and returns their
\* number.
C15_RemovesEveryOldFinished ==
    [][\A days \in {1} :
          (/\ lastResult'.op = "cleanup_old_workspaces"
           /\ \E cut \in list_cuts(dirs, base_exists, "", OldListLimit) :
                 cleanup_old_workspaces_call(days, cut))
          => /\ DOMAIN dirs' = DOMAIN dirs \ DueForRemoval(days)
             /\ lastResult'.total = Cardinality(DueForRemoval(days))]_vars

\* the ids of the workspaces whose metadata file is intact
IntactIds ==
    {dirs[p].workspace_id :
        p \in {q \in DOMAIN dirs : _load_workspace_metadata(dirs, q) /= None}}

\* C16: a directory whose metadata file is missing, unparsable, lacks a
\* required field or holds something other than a JSON object counts as
\* absent: get_workspace_info and list_workspaces raise nothing, get answers
\* for every intact workspace and list returns all of them.
C16_DamagedMetadataSkipped ==
    [][/\ (/\ lastResult'.op = "list_workspaces"
           /\ \E cut \in list_cuts(dirs, base_exists, "", ToolListLimit) :
                 list_workspaces_tool("", cut))
          => /\ lastResult'.escaped = ""
             /\ lastResult'.workspaces = IntactIds
       /\ (/\ lastResult'.op = "get_workspace_info"
           /\ scan.stage /= "idle" /\ scan'.stage = "idle")
          => /\ lastResult'.escaped = ""
             /\ (scan.workspace_id \in IntactIds
                   => lastResult'.workspace_id = scan.workspace_id)
             /\ (scan.workspace_id \notin IntactIds
                   => lastResult'.status = "not_found")]_vars

\* a full match of  \d+\.\S+  (no whitespace after the dot)
FullMatchDottedNonblank(t) ==
    \E k \in 2..(Len(t) - 1) :
        /\ t[k] = "."
        /\ \A i \in 1..(k - 1) : IsDigit(t[i])
        /\ \A i \in (k + 1)..Len(t) : ~IsSpace(t[i])

\* re.match of  ^\d+\.\S+$
MatchesDottedNonblank(s) ==
    \E t \in DollarCandidates(s) : FullMatchDottedNonblank(t)

JobIdOps == {"get_job_status", "delete_job", "hold_job", "release_job"}

\* a step of one of the four operations that take a job id, on job id j
JobIdStep(j) ==
    \E answer \in Answers :
        \/ get_job_status(j, answer)
        \/ \E force \in BOOLEAN : delete_job(j, force, answer)
        \/ hold_job(j, answer)
        \/ release_job(j, answer)

\* C17: get_job_status, delete_job, hold_job and release_job accept a job id
\* exactly when it matches ^\d+\.\S+$; for every other text they answer a
\* failure and make no scheduler call.
C17_JobIdAcceptedIffDottedNonblank ==
    [][lastResult'.op \in JobIdOps
        => \A j \in JobIdInputs :
              JobIdStep(j)
              => /\ (lastResult'.error /= "validation") <=> MatchesDottedNonblank(j)
                 /\ ~MatchesDottedNonblank(j)
                    => /\ lastResult'.error /= ""
                       /\ lastResult'.backend = ""
                       /\ pbs' = pbs]_vars

\* the operations of the job tools
CoordinatorOps ==
    {"submit_pbs_job", "get_job_status", "list_jobs", "delete_job", "hold_job",
     "release_job"}

\* C18: a workspace is active right after create_job_workspace made it; a job
\* tool changes a workspace's status only to submitted, and only in a
\* successful submit_pbs_job made with that workspace's id; no job tool
\* removes a workspace or writes completed or failed.
C18_OnlySubmittedWritten ==
    [][/\ (lastResult'.op = "create_job_workspace"
           /\ lastResult'.status = "created")
          => \A p \in DOMAIN dirs' \ DOMAIN dirs : dirs'[p].status = "active"
       /\ (lastResult'.op \in CoordinatorOps)
          => \A p \in DOMAIN dirs :
                /\ p \in DOMAIN dirs'
                /\ dirs'[p].status \in {dirs[p].status, "submitted"}
                /\ dirs'[p] /= dirs[p]
                   => /\ dirs'[p].status = "submitted"
                      /\ lastResult'.op = "submit_pbs_job"
                      /\ lastResult'.status = "submitted"
                      /\ lastResult'.workspace_id = dirs[p].workspace_id]_vars

C18_Witness ==
    /\ lastResult.op = "submit_pbs_job"
    /\ lastResult.status = "submitted"
    /\ \E p \in DOMAIN dirs :
          /\ dirs[p].workspace_id = lastResult.workspace_id
          /\ dirs[p].status = "submitted"
          /\ dirs[p].job_id /= <<>>

\* a step of delete_job, hold_job or release_job on job id j
JobControlStep(j) ==
    \E answer \in Answers :
        \/ \E force \in BOOLEAN : delete_job(j, force, answer)
        \/ hold_job(j, answer)
        \/ release_job(j, answer)

\* C19: delete_job, hold_job and release_job leave every workspace record as
\* it was, the record of the workspace that recorded the job included.
C19_JobControlLeavesWorkspaces ==
    [][lastResult'.op \in {"delete_job", "hold_job", "release_job"}
        => \A j \in JobIds : JobControlStep(j) => dirs' = dirs]_vars

C19_Witness ==
    /\ lastResult.op = "delete_job"
    /\ lastResult.status = "deleted"
    /\ \E p \in DOMAIN dirs :
          /\ dirs[p].job_id = lastResult.job_id
          /\ dirs[p].status = "submitted"

\* C20: whatever the job name and the metadata map, get_workspace of the id
\* that create_workspace has just returned gives a record equal, field by
\* field, to the one create_workspace returned (no update or cleanup comes
\* in between).
C20_GetReturnsWhatCreateReturned ==
    [][(/\ lastResult.op = "create_workspace"
        /\ lastResult.info /= None
        /\ lastResult'.op = "get_workspace"
        /\ get_workspace_call(lastResult.workspace_id))
       => lastResult'.info = lastResult.info]_vars

\* no stored record carries the id
Unknown(i) ==
    \A p \in DOMAIN dirs :
        _load_workspace_metadata(dirs, p) = None
        \/ _load_workspace_metadata(dirs, p).workspace_id /= i

\* C21: in every state of the store, also while its root does not exist,
\* get_workspace of an id no record carries returns None and raises nothing,
\* and cleanup_workspace of such an id with force=True returns False,
\* raises nothing and leaves the disk as it was.
C21_AbsentIdIsNotFound ==
    [][\A i \in WorkspaceIds :
          Unknown(i)
          => /\ (lastResult'.op = "get_workspace" /\ get_workspace_call(i))
                => /\ lastResult'.escaped = ""
                   /\ lastResult'.info = None
             /\ (/\ lastResult'.op = "cleanup_workspace_method"
                 /\ cleanup_workspace_call(i, TRUE))
                => /\ lastResult'.escaped = ""
                   /\ lastResult'.status = "False"
                   /\ dirs' = dirs
                   /\ base_exists' = base_exists]_vars

C21_Witness ==
    /\ lastResult.op = "cleanup_workspace_method"
    /\ lastResult.force
    /\ lastResult.status = "False"
    /\ ~base_exists

\* the submit calls made with a workspace id
WorkspaceSubmitCalls == {c \in SubmitCalls : c.workspace_id /= 0}

\* C22: submit_pbs_job with a workspace id answers a failure when no
\* workspace carries the id or the workspace has no script path recorded; in
\* both cases no scheduler session is opened, the simulated scheduler's jobs
\* stay as they were and no workspace record changes.
C22_UnusableWorkspaceRefused ==
    [][\A c \in WorkspaceSubmitCalls, answer \in Answers :
          (/\ lastResult'.op = "submit_pbs_job"
           /\ get_workspace(dirs, base_exists, c.workspace_id).script_path = ""
           /\ SubmitStepAnswered(c, answer))
          => /\ lastResult'.status = "failed"
             /\ lastResult'.error =
                   IF get_workspace(dirs, base_exists, c.workspace_id) = None
                   THEN "workspace_not_found" ELSE "no_submit_script"
             /\ lastResult'.job_id = <<>>
             /\ pbs' = pbs
             /\ NoSchedulerCall]_vars

C22_Witness ==
    /\ lastResult.op = "submit_pbs_job"
    /\ lastResult.status = "failed"
    /\ lastResult.error = "no_submit_script"
    /\ \E p \in DOMAIN dirs : dirs[p].script_path = "" /\ dirs[p].status = "active"

\* C23: when submit_pbs_job, called with the id of a workspace that has a
\* script path recorded, answers status submitted with a job id, the record
\* of that workspace then has status submitted and that job id, every other
\* field of it and every other record is as before, and the answer carries
\* the workspace's id and path.
C23_SubmissionRecorded ==
    [][\A c \in WorkspaceSubmitCalls, answer \in Answers :
          (/\ lastResult'.op = "submit_pbs_job"
           /\ lastResult'.status = "submitted"
           /\ SubmitStepAnswered(c, answer))
          => LET old == get_workspace(dirs, base_exists, c.workspace_id)
             IN  /\ old /= None
                 /\ lastResult'.job_id /= <<>>
                 /\ dirs' = [dirs EXCEPT ![old.path] =
                               [old EXCEPT !.status = "submitted",
                                           !.job_id = lastResult'.job_id]]
                 /\ lastResult'.workspace_id = c.workspace_id
                 /\ lastResult'.workspace_path = old.path]_vars

C23_Witness ==
    /\ lastResult.op = "submit_pbs_job"
    /\ lastResult.status = "submitted"
    /\ lastResult.workspace_path /= NoPath
    /\ \E p \in DOMAIN dirs :
          /\ p = lastResult.workspace_path
          /\ dirs[p].job_id = lastResult.job_id
          /\ dirs[p].script_path /= ""
          /\ dirs[p].metadata /= EmptyMetadata

\* a submit_pbs_job call with a workspace id returns in this step
WorkspaceSubmitReturns ==
    \/ submit_pbs_job_record
    \/ \E i \in WorkspaceIds :
          submit_pbs_job("", i, "prod", <<>>, <<"p">>, <<>>, <<>>, <<>>, NoAnswer)

\* C24: whenever submit_pbs_job with a workspace id answers status submitted
\* with a job id, the workspace exists and records that job id, also when a
\* cleanup or an update of the workspace ran while the submit was under way.
C24_SubmittedJobIsRecorded ==
    [][(/\ lastResult'.op = "submit_pbs_job"
        /\ lastResult'.status = "submitted"
        /\ WorkspaceSubmitReturns)
       => /\ get_workspace(dirs', base_exists', lastResult'.workspace_id) /= None
          /\ get_workspace(dirs', base_exists', lastResult'.workspace_id).job_id
                = lastResult'.job_id]_vars

\* a cleanup_workspace call without force removes the directory in this step
UnforcedRemoval ==
    \/ call.op = "cleanup_workspace" /\ ~call.force /\ cleanup_workspace_remove
    \/ \E i \in WorkspaceIds : cleanup_workspace_tool(i, FALSE)

\* C25: whatever updates and submits run on the workspace at the same time,
\* cleanup without force never removes a directory whose stored status is
\* active or submitted at the moment of the removal.
C25_UnforcedCleanupSparesLiveWorkspace ==
    [][\A p \in DOMAIN dirs :
          (/\ lastResult'.op = "cleanup_workspace"
           /\ p \notin DOMAIN dirs'
           /\ UnforcedRemoval)
          => dirs[p].status \notin {"active", "submitted"}]_vars

\* C26: update_workspace calls on one workspace are not serialized.  The call
\* that saves writes the record it loaded, with its own fields set, over the
\* whole file, whatever other calls wrote since it loaded.
C26_LastSaveWins ==
    [][(/\ call.op = "update_workspace"
        /\ update_workspace_save
        /\ lastResult'.escaped = "")
       => dirs'[call.info.path] = call.info]_vars

\* one workspace was made and none removed, a submit with its id has recorded
\* its job id in it, and after a later save of an update call that had loaded
\* the record before, the job id is missing from the record
C26_Witness ==
    /\ lastResult.op = "update_workspace"
    /\ call = NoCall
    /\ Len(eventLog) = 1
    /\ expected_jobs /= EmptyDict
    /\ \E p \in DOMAIN dirs : dirs[p].job_id = <<>>

\* C27: every job id a submit_pbs_job call gets from the simulated backend
\* differs from the ids earlier calls returned.  expected_jobs holds the ids
\* returned so far that no delete_job has been asked to remove, so an id found
\* in it has been returned before.
C27_JobIdsNeverRepeat ==
    [][\A c \in SubmitCalls, answer \in Answers :
          (/\ lastResult'.op = "submit_pbs_job"
           /\ lastResult'.status = "submitted"
           /\ PBSClient = "MockPBSClient"
           /\ SubmitStepAnswered(c, answer))
          => lastResult'.job_id \notin DOMAIN expected_jobs]_vars

\* update_workspace with no argument supplied, with each one alone and with
\* all four, on workspaces that exist and on ids no record carries
UpdateArg(status, job_id, script_path, metadata) ==
    [status |-> status, job_id |-> job_id, script_path |-> script_path,
     metadata |-> metadata]

UpdateArgs ==
    {UpdateArg("", <<>>, "", EmptyMetadata),
     UpdateArg("completed", <<>>, "", EmptyMetadata),
     UpdateArg("", <<"7">>, "", EmptyMetadata),
     UpdateArg("", <<>>, "submit.sh", EmptyMetadata),
     UpdateArg("", <<>>, "", [num_nodes |-> 2]),
     UpdateArg("completed", <<"7">>, "submit.sh", [num_nodes |-> 2])}

NextUpdate ==
    \/ \E n \in JobNames, i \in WorkspaceIds :
          IsNextId(i) /\ create_job_workspace(n, "d1", i)
    \/ \E i \in WorkspaceIds, u \in UpdateArgs :
          update_workspace_call(i, u.status, u.job_id, u.script_path, u.metadata)
    \/ \E i \in WorkspaceIds : cleanup_workspace_tool(i, TRUE)

SpecUpdate == InitStore /\ [][NextUpdate]_vars

\* C28: update_workspace on a workspace leaves its id, path, job name,
\* creation time and system as they were, leaves each of status, job id,
\* script path and metadata as it was when the matching argument is not
\* supplied, and touches no other record; on an id that no record carries it
\* reports not-found and the store stays exactly as it was.
C28_UpdateFrame ==
    [][\A i \in WorkspaceIds, u \in UpdateArgs :
          (/\ lastResult'.op = "update_workspace"
           /\ lastResult'.workspace_id \in {0, i}
           /\ update_workspace_call(i, u.status, u.job_id, u.script_path,
                                    u.metadata))
          => LET old == get_workspace(dirs, base_exists, i)
             IN  IF old = None
                 THEN /\ lastResult'.error = "not_found"
                      /\ dirs' = dirs
                      /\ base_exists' = base_exists
                 ELSE /\ lastResult'.error = ""
                      /\ DOMAIN dirs' = DOMAIN dirs
                      /\ \A q \in DOMAIN dirs \ {old.path} : dirs'[q] = dirs[q]
                      /\ LET new == dirs'[old.path]
                         IN  /\ new.workspace_id = old.workspace_id
                             /\ new.path = old.path
                             /\ new.job_name = old.job_name
                             /\ new.created_at = old.created_at
                             /\ new.system = old.system
                             /\ u.status = "" => new.status = old.status
                             /\ u.job_id = <<>> => new.job_id = old.job_id
                             /\ u.script_path = ""
                                   => new.script_path = old.script_path
                             /\ u.metadata = EmptyMetadata
                                   => new.metadata = old.metadata]_vars

\* an update that supplied a job id and nothing else has been applied to a
\* workspace with a description, and an update of a removed one was refused
C28_Witness ==
    /\ lastResult.op = "update_workspace"
    /\ lastResult.error = "not_found"
    /\ Len(eventLog) = 3
    /\ \E p \in DOMAIN dirs :
          /\ dirs[p].job_id = <<"7">>
          /\ dirs[p].status = "active"
          /\ dirs[p].script_path = ""
          /\ DOMAIN dirs[p].metadata = {"description"}

\* submit_pbs_job with and without a job name, with an account that has
\* blanks around it, and with every choice of select spec, walltime and
\* filesystems, by script path and by workspace id; the workspaces get a script
\* path and a node count from the script builders
GoodWalltime == <<"1", ":", "0", "0", ":", "0", "0">>

GoodFilesystems == <<"f">>

AttrCalls ==
    {[workspace_id |-> i, job_name |-> n.job_name, account |-> n.account,
      select_spec |-> s, walltime |-> w, filesystems |-> f] :
        i \in 0..MaxIds,
        n \in {[job_name |-> <<>>, account |-> <<"p">>],
               [job_name |-> <<"n">>, account |-> <<" ", "p">>]},
        s \in {<<>>, <<"4">>},
        w \in {<<>>, GoodWalltime},
        f \in {<<>>, GoodFilesystems}}

AttrStep(c) ==
    submit_pbs_job(IF c.workspace_id = 0 THEN "job.sh" ELSE "", c.workspace_id,
                   "prod", c.job_name, c.account, c.select_spec, c.walltime,
                   c.filesystems, NoAnswer)

NextAttrs ==
    \/ \E i \in WorkspaceIds : IsNextId(i) /\ create_job_workspace(<<"b">>, "", i)
    \/ \E i \in WorkspaceIds :
          update_workspace_call(i, "", <<>>, "submit.sh", EmptyMetadata)
    \/ \E i \in WorkspaceIds :
          update_workspace_call(i, "", <<>>, "", [num_nodes |-> 2])
    \/ \E c \in AttrCalls : AttrStep(c)

SpecAttrs == InitStore /\ [][NextAttrs]_vars

\* the caller supplied a select spec, a walltime or a filesystems list
ResourceSupplied(c) ==
    c.select_spec /= <<>> \/ c.walltime /= <<>> \/ c.filesystems /= <<>>

\* the call names a workspace whose metadata carries a node count and gives
\* no select spec of its own
SelectDerived(c) ==
    /\ c.workspace_id /= 0
    /\ c.select_spec = <<>>
    /\ LET old == get_workspace(dirs, base_exists, c.workspace_id)
       IN  old /= None /\ "num_nodes" \in DOMAIN old.metadata

\* the attribute map a: the trimmed account, the job name if and only if one
\* was given, a resource sub-map only when requested says one is due, and
\* select never without place scatter
AttrsAsPromised(c, a, requested) ==
    /\ "Account_Name" \in DOMAIN a
    /\ a["Account_Name"] = Strip(c.account)
    /\ ("Job_Name" \in DOMAIN a) <=> (c.job_name /= <<>>)
    /\ "Job_Name" \in DOMAIN a => a["Job_Name"] = c.job_name
    /\ "Resource_List" \in DOMAIN a => requested
    /\ "Resource_List" \in DOMAIN a
          => LET rl == a["Resource_List"]
             IN  "select" \in DOMAIN rl
                    => "place" \in DOMAIN rl /\ rl["place"] = "scatter"

\* C29 as stated: the attribute map of every submit that reaches the
\* scheduler holds the trimmed account, the job name only when given, a
\* resource sub-map only when the caller supplied a select spec, a walltime or
\* filesystems, and place scatter with every select.
C29_SubmapOnlyWhenSupplied ==
    [][\A c \in AttrCalls :
          (/\ lastResult'.op = "submit_pbs_job"
           /\ lastResult'.status = "submitted"
           /\ lastResult'.workspace_id = c.workspace_id
           /\ AttrStep(c))
          => AttrsAsPromised(c, pbs'.submit_attrs, ResourceSupplied(c))]_vars

\* C29, amended: the same, with the resource sub-map present only when the
\* caller supplied a select spec, a walltime or filesystems, or the select
\* spec was derived from the node count in the workspace's metadata.
C29_SubmapOnlyWhenRequested ==
    [][\A c \in AttrCalls :
          (/\ lastResult'.op = "submit_pbs_job"
           /\ lastResult'.status = "submitted"
           /\ lastResult'.workspace_id = c.workspace_id
           /\ AttrStep(c))
          => AttrsAsPromised(c, pbs'.submit_attrs,
                             ResourceSupplied(c) \/ SelectDerived(c))]_vars

\* a submit by workspace id without a job name and without resources of its
\* own has sent the account and the select spec derived from the node count
C29_Witness ==
    /\ lastResult.op = "submit_pbs_job"
    /\ lastResult.status = "submitted"
    /\ lastResult.workspace_id /= 0
    /\ pbs.submit_attrs =
          [Account_Name |-> <<"p">>,
           Resource_List |-> [select |-> <<"2">>, place |-> "scatter"]]

\* ------------------------------------------- one simulated client, kept open
\* MockPBSClient.get_job, lines 204-208
mock_get_job(c, job_id) ==
    IF mock_stat_jobs(c, job_id) = <<>> \/ job_id = <<>>
    THEN [raised |-> "MockPBSException", job |-> None]
    ELSE [raised |-> "", job |-> mock_stat_jobs(c, job_id)[1]]

\* MockPBSClient.alter_job, lines 236-241
mock_alter_job(c, job_id, updates) ==
    IF \A k \in 1..Len(c.jobs) : c.jobs[k].name /= job_id
    THEN [raised |-> "MockPBSException", client |-> c]
    ELSE [raised |-> "",
          client |-> [c EXCEPT !.jobs =
                        [k \in 1..Len(c.jobs) |->
                            IF c.jobs[k].name = job_id
                            THEN [c.jobs[k] EXCEPT !.attrs = updates @@ @]
                            ELSE c.jobs[k]]]]

\* how many jobs the client is given
MaxSubmits == 2

\* what a call on the client returned, or the exception it raised
ClientResult(op, job_id, raised, jobs) ==
    R([op |-> op, job_id |-> job_id, backend |-> "MockPBSClient",
       escaped |-> raised,
       error |-> IF raised /= "" THEN "job_not_found" ELSE "",
       total |-> Len(jobs),
       state |-> IF jobs /= <<>> THEN jobs[1].attrs["job_state"] ELSE ""])

client_submit(queue, attrs) ==
    /\ pbs.job_counter < InitialJobCounter + MaxSubmits
    /\ LET s == mock_submit(pbs, "job.sh", queue, attrs, now)
       IN  /\ pbs' = s.client
           /\ lastResult' = ClientResult("submit", s.job_id, "",
                                         mock_stat_jobs(s.client, s.job_id))
    /\ UNCHANGED <<call, scan, startup, store, expected_jobs>>

client_stat_jobs(job_id) ==
    /\ lastResult' = ClientResult("stat_jobs", job_id, "",
                                  mock_stat_jobs(pbs, job_id))
    /\ UNCHANGED <<call, scan, startup, store, expected_jobs, pbs>>

client_get_job(job_id) ==
    /\ LET g == mock_get_job(pbs, job_id)
       IN  lastResult' = ClientResult("get_job", job_id, g.raised,
                                      IF g.raised = "" THEN <<g.job>> ELSE <<>>)
    /\ UNCHANGED <<call, scan, startup, store, expected_jobs, pbs>>

client_delete_job(job_id) ==
    /\ pbs' = mock_delete_job(pbs, job_id)
    /\ lastResult' = ClientResult("delete_job", job_id, "", <<>>)
    /\ UNCHANGED <<call, scan, startup, store, expected_jobs>>

client_hold_job(job_id) ==
    /\ pbs' = mock_hold_job(pbs, job_id)
    /\ lastResult' = ClientResult("hold_job", job_id, "", <<>>)
    /\ UNCHANGED <<call, scan, startup, store, expected_jobs>>

client_release_job(job_id) ==
    /\ pbs' = mock_release_job(pbs, job_id)
    /\ lastResult' = ClientResult("release_job", job_id, "", <<>>)
    /\ UNCHANGED <<call, scan, startup, store, expected_jobs>>

client_alter_job(job_id, updates) ==
    /\ LET a == mock_alter_job(pbs, job_id, updates)
       IN  /\ pbs' = a.client
           /\ lastResult' = ClientResult("alter_job", job_id, a.raised, <<>>)
    /\ UNCHANGED <<call, scan, startup, store, expected_jobs>>

\* the ids the client hands out, and one it never does
ClientJobIds ==
    {ToDigits(InitialJobCounter + k) \o <<".">> \o pbs_server :
        k \in 0..(MaxSubmits - 1)}
    \cup {<<"9", ".", "p", "b", "s">>}

\* a client inside its with-block
InitClient ==
    /\ pc = "serving"
    /\ environ_mock = "1"
    /\ PBSClient = "MockPBSClient"
    /\ now = 0
    /\ base_exists = FALSE
    /\ dirs = NoDirs
    /\ lastResult = NoResult
    /\ eventLog = <<>>
    /\ expected_jobs = EmptyDict
    /\ pbs = new_mock_client
    /\ scan = NoScan
    /\ call = NoCall

NextClient ==
    \/ \E attrs \in {EmptyDict, [Account_Name |-> <<"p">>]} :
          client_submit("prod", attrs)
    \/ \E j \in ClientJobIds : client_stat_jobs(j)
    \/ \E j \in ClientJobIds : client_get_job(j)
    \/ \E j \in ClientJobIds : client_delete_job(j)
    \/ \E j \in ClientJobIds : client_hold_job(j)
    \/ \E j \in ClientJobIds : client_release_job(j)
    \/ \E j \in ClientJobIds : client_alter_job(j, [comment |-> "c"])

SpecClient == InitClient /\ [][NextClient]_vars

\* the ids of the jobs the client holds
Held(c) == {c.jobs[k].name : k \in 1..Len(c.jobs)}

\* the state stat_jobs reports for a job ("" when it reports no job)
StatState(c, job_id) ==
    IF mock_stat_jobs(c, job_id) = <<>> THEN ""
    ELSE mock_stat_jobs(c, job_id)[1].attrs["job_state"]

\* every job but job_id is reported by stat_jobs as before
OthersKept(job_id) ==
    \A o \in ClientJobIds \ {job_id} :
        mock_stat_jobs(pbs', o) = mock_stat_jobs(pbs, o)

\* C30: on one simulated client, submit raises nothing and the job it returns
\* is then reported queued; hold makes a job the client holds held, release
\* makes it queued, delete makes stat_jobs report it no more; hold, release
\* and delete of an id the client does not hold leave the client as it was;
\* no other job is touched by any of these; and an exception is raised only
\* by an operation given an id the client does not hold, and it is not-found.
C30_SimulatedClientOperations ==
    [][LET op == lastResult'.op
           j == lastResult'.job_id
       IN  /\ op = "submit"
              => /\ lastResult'.escaped = ""
                 /\ j \notin Held(pbs)
                 /\ StatState(pbs', j) = "Q"
                 /\ OthersKept(j)
           /\ (op = "hold_job" /\ j \in Held(pbs))
              => StatState(pbs', j) = "H" /\ OthersKept(j)
           /\ (op = "release_job" /\ j \in Held(pbs))
              => StatState(pbs', j) = "Q" /\ OthersKept(j)
           /\ (op = "delete_job" /\ j \in Held(pbs))
              => mock_stat_jobs(pbs', j) = <<>> /\ OthersKept(j)
           /\ (op \in {"hold_job", "release_job", "delete_job"}
               /\ j \notin Held(pbs))
              => pbs' = pbs /\ lastResult'.escaped = ""
           /\ lastResult'.escaped /= ""
              => /\ lastResult'.escaped = "MockPBSException"
                 /\ lastResult'.error = "job_not_found"
                 /\ j \notin Held(pbs)
                 /\ pbs' = pbs]_vars

\* two jobs were submitted, one of them is held, the other was deleted, and
\* the client has just been asked for the deleted one
C30_Witness ==
    /\ lastResult.op = "get_job"
    /\ lastResult.escaped = "MockPBSException"
    /\ pbs.connected
    /\ pbs.job_counter = InitialJobCounter + 2
    /\ Len(pbs.jobs) = 1
    /\ pbs.jobs[1].attrs["job_state"] = "H"
    /\ lastResult.job_id \in ClientJobIds \ {<<"9", ".", "p", "b", "s">>}

====
